---------------------------- MODULE Spec2Model ----------------------------
(***************************************************************************)
(* Placement-and-resolution core of shetris: shape table, kick table,      *)
(* field (grid), boundary analyzer, piece values and the mover, driven by  *)
(* the engine's exec_* operations.                                         *)
(*                                                                         *)
(* Conventions.  A coordinate is a pair <<pos0, pos1>> (row, column).      *)
(* numpy arrays are sequences, indexed from 1 where Python indexes from 0. *)
(* The field (a rows x cols boolean matrix) is the set of its True cells.  *)
(* Python's None is the record None; a raised exception is Raised(name).   *)
(***************************************************************************)
EXTENDS Integers, Sequences, FiniteSets, TLC

VARIABLES
    size,   \* Field.size: <<rows, cols>>
    field,  \* Field.field: the set of cells that hold True
    piece,  \* Engine.piece: the current piece
    ret,    \* what the last operation returned to its caller
    last,   \* the last operation called and its arguments
    is_game_over, \* Engine.is_game_over
    pc,     \* where the caller is in a piece's life-cycle
    loc,    \* attempt_maxout's local variable piece while its loop runs
    steps,  \* number of successful atomics of the running attempt_maxout
    generator \* Engine.generator: its kind, its bag and its reservoir's data

vars == <<size, field, piece, ret, last, is_game_over, pc, loc, steps,
          generator>>

\* ----------------------------------------------------------------- bounds
Rows == 5
Cols == 5
MaxDelta == 2

\* ------------------------------------------------------------ Python values
None == [none |-> TRUE]

Raised(name) == [raised |-> name]

IsRaised(v) == v \in {Raised("ValueError"), Raised("IndexError")}

IsPiece(v) == v # None /\ ~IsRaised(v)

\* a + b for two 2-vectors
VecAdd(a, b) == <<a[1] + b[1], a[2] + b[2]>>

VecSub(a, b) == <<a[1] - b[1], a[2] - b[2]>>

\* coord + delta, broadcast over the four rows of coord
CoordAdd(coord, delta) == [i \in 1..Len(coord) |-> VecAdd(coord[i], delta)]

SeqMin(s) == CHOOSE m \in {s[i] : i \in 1..Len(s)} : \A i \in 1..Len(s) : m <= s[i]

SeqMax(s) == CHOOSE m \in {s[i] : i \in 1..Len(s)} : \A i \in 1..Len(s) : m >= s[i]

\* ------------------------------------------------------- RelCoord (coord.py)
rel_coords ==
    << \* O
       << <<<<0, 1>>, <<1, 1>>, <<0, 2>>, <<1, 2>>>>,
          <<<<0, 1>>, <<1, 1>>, <<0, 2>>, <<1, 2>>>>,
          <<<<0, 1>>, <<1, 1>>, <<0, 2>>, <<1, 2>>>>,
          <<<<0, 1>>, <<1, 1>>, <<0, 2>>, <<1, 2>>>> >>,
       \* I
       << <<<<1, 0>>, <<1, 1>>, <<1, 2>>, <<1, 3>>>>,
          <<<<0, 1>>, <<1, 1>>, <<2, 1>>, <<3, 1>>>>,
          <<<<2, 0>>, <<2, 1>>, <<2, 2>>, <<2, 3>>>>,
          <<<<0, 2>>, <<1, 2>>, <<2, 2>>, <<3, 2>>>> >>,
       \* S
       << <<<<1, 0>>, <<0, 1>>, <<1, 1>>, <<0, 2>>>>,
          <<<<0, 0>>, <<1, 0>>, <<1, 1>>, <<2, 1>>>>,
          <<<<2, 0>>, <<1, 1>>, <<2, 1>>, <<1, 2>>>>,
          <<<<0, 1>>, <<1, 1>>, <<1, 2>>, <<2, 2>>>> >>,
       \* Z
       << <<<<0, 0>>, <<0, 1>>, <<1, 1>>, <<1, 2>>>>,
          <<<<1, 0>>, <<2, 0>>, <<0, 1>>, <<1, 1>>>>,
          <<<<1, 0>>, <<1, 1>>, <<2, 1>>, <<2, 2>>>>,
          <<<<1, 1>>, <<2, 1>>, <<0, 2>>, <<1, 2>>>> >>,
       \* L
       << <<<<1, 0>>, <<1, 1>>, <<0, 2>>, <<1, 2>>>>,
          <<<<0, 0>>, <<0, 1>>, <<1, 1>>, <<2, 1>>>>,
          <<<<1, 0>>, <<2, 0>>, <<1, 1>>, <<1, 2>>>>,
          <<<<0, 1>>, <<1, 1>>, <<2, 1>>, <<2, 2>>>> >>,
       \* J
       << <<<<0, 0>>, <<1, 0>>, <<1, 1>>, <<1, 2>>>>,
          <<<<2, 0>>, <<0, 1>>, <<1, 1>>, <<2, 1>>>>,
          <<<<1, 0>>, <<1, 1>>, <<1, 2>>, <<2, 2>>>>,
          <<<<0, 1>>, <<1, 1>>, <<2, 1>>, <<0, 2>>>> >>,
       \* T
       << <<<<1, 0>>, <<0, 1>>, <<1, 1>>, <<1, 2>>>>,
          <<<<1, 0>>, <<0, 1>>, <<1, 1>>, <<2, 1>>>>,
          <<<<1, 0>>, <<1, 1>>, <<2, 1>>, <<1, 2>>>>,
          <<<<0, 1>>, <<1, 1>>, <<2, 1>>, <<1, 2>>>> >> >>

\* ((lowest_pos0, highest_pos0 + 1), (lowest_pos1, highest_pos1 + 1)) per rot
rel_range_o ==
    << <<<<0, 2>>, <<1, 3>>>>,
       <<<<0, 2>>, <<1, 3>>>>,
       <<<<0, 2>>, <<1, 3>>>>,
       <<<<0, 2>>, <<1, 3>>>> >>

rel_range_i ==
    << <<<<1, 2>>, <<0, 4>>>>,
       <<<<0, 4>>, <<1, 2>>>>,
       <<<<2, 3>>, <<0, 4>>>>,
       <<<<0, 4>>, <<2, 3>>>> >>

rel_range_szljt ==
    << <<<<0, 2>>, <<0, 3>>>>,
       <<<<0, 3>>, <<0, 2>>>>,
       <<<<1, 3>>, <<0, 3>>>>,
       <<<<0, 3>>, <<1, 3>>>> >>

\* get_rel_coord, but the last cell of the T at rot 2 is typed as the cell
\* before it
get_rel_coord_typo(pid, rot) ==
    IF pid = 6 /\ rot = 2
    THEN [rel_coords[7][3] EXCEPT ![4] = rel_coords[7][3][3]]
    ELSE rel_coords[pid + 1][rot + 1]

get_rel_coord(pid, rot) == rel_coords[pid + 1][rot + 1]

\* get_rel_range, but the two axes are taken for one another
get_rel_range_swapped(pid, rot, is_pos0) ==
    LET rel_range_all == IF pid = 0 THEN rel_range_o
                         ELSE IF pid = 1 THEN rel_range_i
                         ELSE rel_range_szljt
        idx == IF is_pos0 THEN 1 ELSE 0
    IN  rel_range_all[rot + 1][idx + 1]

get_rel_range(pid, rot, is_pos0) ==
    LET rel_range_all == IF pid = 0 THEN rel_range_o
                         ELSE IF pid = 1 THEN rel_range_i
                         ELSE rel_range_szljt
        idx == IF is_pos0 THEN 0 ELSE 1
    IN  rel_range_all[rot + 1][idx + 1]

\* ------------------------------------------------------------ Kick (kick.py)
srs_o == << << <<0, 0>> >> >>

srs_i ==
    << << <<0, 0>>, <<0, 2>>, <<0, -1>>, <<-1, 2>>, <<2, -1>> >>,
       << <<0, 0>>, <<0, 1>>, <<0, -2>>, <<2, 1>>, <<-1, -2>> >>,
       << <<0, 0>>, <<0, -1>>, <<0, 2>>, <<-2, -1>>, <<1, 2>> >>,
       << <<0, 0>>, <<0, 2>>, <<0, -1>>, <<-1, 2>>, <<2, -1>> >>,
       << <<0, 0>>, <<0, -2>>, <<0, 1>>, <<1, -2>>, <<-2, 1>> >>,
       << <<0, 0>>, <<0, -1>>, <<0, 2>>, <<-2, -1>>, <<1, 2>> >>,
       << <<0, 0>>, <<0, 1>>, <<0, -2>>, <<2, 1>>, <<-1, -2>> >>,
       << <<0, 0>>, <<0, -2>>, <<0, 1>>, <<1, -2>>, <<-2, 1>> >> >>

srs_szljt ==
    << << <<0, 0>>, <<0, 1>>, <<1, 1>>, <<-2, 0>>, <<-2, 1>> >>,
       << <<0, 0>>, <<0, -1>>, <<1, -1>>, <<-2, 0>>, <<-2, -1>> >>,
       << <<0, 0>>, <<0, 1>>, <<-1, 1>>, <<2, 0>>, <<2, 1>> >>,
       << <<0, 0>>, <<0, 1>>, <<-1, 1>>, <<2, 0>>, <<2, 1>> >>,
       << <<0, 0>>, <<0, -1>>, <<1, -1>>, <<-2, 0>>, <<-2, -1>> >>,
       << <<0, 0>>, <<0, 1>>, <<1, 1>>, <<-2, 0>>, <<-2, 1>> >>,
       << <<0, 0>>, <<0, -1>>, <<-1, -1>>, <<2, 0>>, <<2, -1>> >>,
       << <<0, 0>>, <<0, -1>>, <<-1, -1>>, <<2, 0>>, <<2, -1>> >> >>

\* get_srs_candidates, but the candidates of both directions are returned,
\* those of the direction asked for first
get_srs_candidates_both(pid, rot, positive_dir) ==
    IF pid = 0 THEN srs_i
    ELSE LET idx == 2 * rot + (IF positive_dir THEN 0 ELSE 1)
             other == 2 * rot + (IF positive_dir THEN 1 ELSE 0)
         IN  IF pid = 1 THEN srs_i[idx + 1] \o srs_i[other + 1]
             ELSE srs_szljt[idx + 1] \o srs_szljt[other + 1]

\* for pid 0 the code returns the whole table srs_i (8 rows of 5 offsets)
get_srs_candidates(pid, rot, positive_dir) ==
    IF pid = 0 THEN srs_i
    ELSE LET idx == 2 * rot + (IF positive_dir THEN 0 ELSE 1)
         IN  IF pid = 1 THEN srs_i[idx + 1] ELSE srs_szljt[idx + 1]

\* Config, but the sign of the rotation is dropped before the remainder is
\* taken
Config_unsigned(pos, rot) ==
    [pos |-> pos, rot |-> (IF rot < 0 THEN -rot ELSE rot) % 4]

\* ----------------------------------------------------- Config, Piece (piece.py)
Config(pos, rot) == [pos |-> pos, rot |-> rot % 4]

get_coord(pid, config) == CoordAdd(get_rel_coord(pid, config.rot), config.pos)

\* get_range, but the upper end is the highest row or column the piece holds
\* and not one more
get_range_inclusive(pid, config, is_pos0) ==
    LET rel_range == get_rel_range(pid, config.rot, is_pos0)
        idx == IF is_pos0 THEN 0 ELSE 1
    IN  <<config.pos[idx + 1] + rel_range[1],
          config.pos[idx + 1] + rel_range[2] - 1>>

get_range(pid, config, is_pos0) ==
    LET rel_range == get_rel_range(pid, config.rot, is_pos0)
        idx == IF is_pos0 THEN 0 ELSE 1
    IN  <<config.pos[idx + 1] + rel_range[1], config.pos[idx + 1] + rel_range[2]>>

Piece(pid, config, coord) == [pid |-> pid, config |-> config, coord |-> coord]

from_init(pid, config) == Piece(pid, config, get_coord(pid, config))

\* from_atomic_pos0, but the sign of the direction is not applied to the
\* reference position: the config always goes down while the cells follow the
\* direction
from_atomic_pos0_config_down(p, positive_dir) ==
    LET delta == IF positive_dir THEN 1 ELSE -1
    IN  Piece(p.pid, Config(VecAdd(p.config.pos, <<1, 0>>), p.config.rot),
              CoordAdd(p.coord, <<delta, 0>>))

from_atomic_pos0(p, positive_dir) ==
    LET delta == IF positive_dir THEN 1 ELSE -1
    IN  Piece(p.pid, Config(VecAdd(p.config.pos, <<delta, 0>>), p.config.rot),
              CoordAdd(p.coord, <<delta, 0>>))

\* from_atomic_pos1, but the cells are shifted as from_atomic_pos0 shifts them
from_atomic_pos1_rows(p, positive_dir) ==
    LET delta == IF positive_dir THEN 1 ELSE -1
    IN  Piece(p.pid, Config(VecAdd(p.config.pos, <<0, delta>>), p.config.rot),
              CoordAdd(p.coord, <<delta, 0>>))

from_atomic_pos1(p, positive_dir) ==
    LET delta == IF positive_dir THEN 1 ELSE -1
    IN  Piece(p.pid, Config(VecAdd(p.config.pos, <<0, delta>>), p.config.rot),
              CoordAdd(p.coord, <<0, delta>>))

\* from_atomic_rot, but the O piece is turned about its first column: its
\* reference position moves by one column
from_atomic_rot_o_moves(p, positive_dir) ==
    LET delta == IF positive_dir THEN 1 ELSE -1
        pos_new == IF p.pid = 0 THEN VecAdd(p.config.pos, <<0, delta>>)
                   ELSE p.config.pos
        config_new == Config(pos_new, (p.config.rot + delta) % 4)
    IN  Piece(p.pid, config_new, get_coord(p.pid, config_new))

from_atomic_rot(p, positive_dir) ==
    LET delta == IF positive_dir THEN 1 ELSE -1
        config_new == Config(p.config.pos, (p.config.rot + delta) % 4)
    IN  Piece(p.pid, config_new, get_coord(p.pid, config_new))

from_multi_pos1(p, delta) ==
    Piece(p.pid, Config(VecAdd(p.config.pos, <<0, delta>>), p.config.rot),
          CoordAdd(p.coord, <<0, delta>>))

\* from_multi_rot, but built as Piece.from_multi_pos1_rot with the delta of
\* the rotation for both of its deltas
from_multi_rot_shifted(p, delta) ==
    LET config_new == Config(VecAdd(p.config.pos, <<0, delta>>),
                             p.config.rot + delta)
    IN  Piece(p.pid, config_new, get_coord(p.pid, config_new))

from_multi_rot(p, delta) ==
    LET config_new == Config(p.config.pos, p.config.rot + delta)
    IN  Piece(p.pid, config_new, get_coord(p.pid, config_new))

\* delta is one offset (a 2-vector); a 5 x 2 block of offsets (what iterating
\* the whole table srs_i yields) cannot be added to the 4 x 2 coord: numpy
\* raises ValueError
from_multi_pos(p, delta) ==
    IF Len(delta) # 2
    THEN Raised("ValueError")
    ELSE Piece(p.pid, Config(VecAdd(p.config.pos, delta), p.config.rot),
               CoordAdd(p.coord, delta))

to_absolute_pos(p, target_pos) ==
    from_multi_pos(p, VecSub(target_pos, p.config.pos))

\* ----------------------------------------------------------- Field (field.py)
\* Python index i into an axis of length n: negative indexes count from the end
NormIdx(i, n) == IF i < 0 THEN i + n ELSE i

IndexError(i, n) == i < -n \/ i >= n

\* Field.at_one: field[coord[0], coord[1]]
at_one(cell) == <<NormIdx(cell[1], size[1]), NormIdx(cell[2], size[2])>> \in field

\* Field.at raises IndexError as soon as one of the cells is off the matrix
at_raises(coords) ==
    \E i \in 1..Len(coords) :
        IndexError(coords[i][1], size[1]) \/ IndexError(coords[i][2], size[2])

has_collision(candidates) == \E i \in 1..Len(candidates) : at_one(candidates[i])

exceeded_boundary(in_pos0, in_pos_dir, candidates) ==
    LET candidates_to_check ==
            [i \in 1..Len(candidates) |->
                IF in_pos0 THEN candidates[i][1] ELSE candidates[i][2]]
    IN  IF in_pos_dir
        THEN LET boundary == IF in_pos0 THEN size[1] - 1 ELSE size[2] - 1
             IN  SeqMax(candidates_to_check) > boundary
        ELSE SeqMin(candidates_to_check) < 0

\* "U", "D", "L", "R" -> [checking_in_pos0, checking_in_pos_dir]
check_strings_to_internals(c) ==
    CASE c = "U" -> <<TRUE, FALSE>>
      [] c = "D" -> <<TRUE, TRUE>>
      [] c = "L" -> <<FALSE, FALSE>>
      [] c = "R" -> <<FALSE, TRUE>>

exceeded_boundaries(boundaries_string, candidates) ==
    \E k \in 1..Len(boundaries_string) :
        LET t == check_strings_to_internals(boundaries_string[k])
        IN  exceeded_boundary(t[1], t[2], candidates)

\* ------------------------------------------------ BoundaryAnalyzer (mover.py)
\* ((minimum-allowed-pos0, maximum-pos0), (min-pos1, max-pos1)) per rot,
\* hard-coded for the standard 20 x 10 field
\* std_valid_range_o, but with the pos0 limits of a field of 18 rows
std_valid_range_o_low ==
    << <<<<0, 16>>, <<-1, 7>>>>,
       <<<<0, 16>>, <<-1, 7>>>>,
       <<<<0, 16>>, <<-1, 7>>>>,
       <<<<0, 16>>, <<-1, 7>>>> >>

std_valid_range_o ==
    << <<<<0, 18>>, <<-1, 7>>>>,
       <<<<0, 18>>, <<-1, 7>>>>,
       <<<<0, 18>>, <<-1, 7>>>>,
       <<<<0, 18>>, <<-1, 7>>>> >>

\* std_valid_range_i, but one limit of the upright I is the one of the flat I
std_valid_range_i_typo ==
    << <<<<-1, 18>>, <<0, 6>>>>,
       <<<<0, 18>>, <<-1, 8>>>>,
       <<<<-2, 17>>, <<0, 6>>>>,
       <<<<0, 16>>, <<-2, 7>>>> >>

std_valid_range_i ==
    << <<<<-1, 18>>, <<0, 6>>>>,
       <<<<0, 16>>, <<-1, 8>>>>,
       <<<<-2, 17>>, <<0, 6>>>>,
       <<<<0, 16>>, <<-2, 7>>>> >>

std_valid_range_szljt ==
    << <<<<0, 18>>, <<0, 7>>>>,
       <<<<0, 17>>, <<0, 8>>>>,
       <<<<-1, 17>>, <<0, 7>>>>,
       <<<<0, 17>>, <<-1, 7>>>> >>

\* get_valid_range_all, but the greatest relative coordinate is taken for
\* the relative range's upper end, which lies one beyond it
get_valid_range_all_inclusive(rel_range) ==
    [r \in 1..Len(rel_range) |->
        << <<0 - rel_range[r][1][1], size[1] - rel_range[r][1][2] + 1>>,
           <<0 - rel_range[r][2][1], size[2] - rel_range[r][2][2] + 1>> >>]

\* limits - rel_range, elementwise, with limits = ((0, size0), (0, size1))
get_valid_range_all(rel_range) ==
    [r \in 1..Len(rel_range) |->
        << <<0 - rel_range[r][1][1], size[1] - rel_range[r][1][2]>>,
           <<0 - rel_range[r][2][1], size[2] - rel_range[r][2][2]>> >>]

IsStdSize == size[1] = 20 /\ size[2] = 10

valid_range_o ==
    IF IsStdSize THEN std_valid_range_o ELSE get_valid_range_all(rel_range_o)

valid_range_i ==
    IF IsStdSize THEN std_valid_range_i ELSE get_valid_range_all(rel_range_i)

valid_range_szljt ==
    IF IsStdSize THEN std_valid_range_szljt
    ELSE get_valid_range_all(rel_range_szljt)

\* get_zero_pos, but pos1 is taken from the other end of the range
get_zero_pos_far(pid, rot) ==
    LET valid_range_all == IF pid = 0 THEN valid_range_o[rot + 1]
                           ELSE IF pid = 1 THEN valid_range_i[rot + 1]
                           ELSE valid_range_szljt[rot + 1]
    IN  <<valid_range_all[1][1], valid_range_all[2][2]>>

get_zero_pos(pid, rot) ==
    LET valid_range_all == IF pid = 0 THEN valid_range_o[rot + 1]
                           ELSE IF pid = 1 THEN valid_range_i[rot + 1]
                           ELSE valid_range_szljt[rot + 1]
    IN  <<valid_range_all[1][1], valid_range_all[2][1]>>

get_valid_range(pid, rot, is_pos0, pos_dir) ==
    LET valid_range_all == IF pid = 0 THEN valid_range_o[rot + 1]
                           ELSE IF pid = 1 THEN valid_range_i[rot + 1]
                           ELSE valid_range_szljt[rot + 1]
        idx_pos == IF is_pos0 THEN 0 ELSE 1
        idx_dir == IF pos_dir THEN 1 ELSE 0
    IN  valid_range_all[idx_pos + 1][idx_dir + 1]

\* _atomic_to_check_string, but a move to the side checks the wall it moves
\* away from
atomic_to_check_string_away(atomic_type, positive_dir) ==
    IF atomic_type = 0
    THEN (IF positive_dir THEN <<"D">> ELSE <<"U">>)
    ELSE IF atomic_type = 1
    THEN (IF positive_dir THEN <<"L">> ELSE <<"R">>)
    ELSE <<"L", "R", "U", "D">>

\* ----------------------------------------------------------- Mover (mover.py)
atomic_to_check_string(atomic_type, positive_dir) ==
    IF atomic_type = 0
    THEN (IF positive_dir THEN <<"D">> ELSE <<"U">>)
    ELSE IF atomic_type = 1
    THEN (IF positive_dir THEN <<"R">> ELSE <<"L">>)
    ELSE <<"L", "R", "U", "D">>

\* bad_boundary, but a reference position on the limit counts as beyond it
bad_boundary_inclusive(p, is_pos0, pos_dir) ==
    LET relevant_pos_idx == IF is_pos0 THEN 0 ELSE 1
        relevant_pos == p.config.pos[relevant_pos_idx + 1]
        limit == get_valid_range(p.pid, p.config.rot, is_pos0, pos_dir)
    IN  IF pos_dir THEN relevant_pos >= limit ELSE relevant_pos <= limit

bad_boundary(p, is_pos0, pos_dir) ==
    LET relevant_pos_idx == IF is_pos0 THEN 0 ELSE 1
        relevant_pos == p.config.pos[relevant_pos_idx + 1]
        limit == get_valid_range(p.pid, p.config.rot, is_pos0, pos_dir)
    IN  IF pos_dir THEN relevant_pos > limit ELSE relevant_pos < limit

bad_boundaries(p, check_str) ==
    \E k \in 1..Len(check_str) :
        LET t == check_strings_to_internals(check_str[k])
        IN  bad_boundary(p, t[1], t[2])

\* bad_boundaries_collision, but the cells of the piece are not looked up in
\* the field
bad_boundaries_only(check_str, p) == bad_boundaries(p, check_str)

\* True if the checks fail; the collision check reads the field only when no
\* checked boundary is exceeded
bad_boundaries_collision(check_str, p) ==
    IF bad_boundaries(p, check_str) THEN TRUE ELSE has_collision(p.coord)

\* check_raises, but the field is read before the boundaries are looked at
check_raises_reads_first(check_str, p) == at_raises(p.coord)

\* bad_boundaries_collision raises (IndexError out of Field.at) instead of
\* returning
check_raises(check_str, p) ==
    ~bad_boundaries(p, check_str) /\ at_raises(p.coord)

\* attempt_atomic_pos, but the new piece goes to the collision check with no
\* boundary checked
attempt_atomic_pos_unchecked(p, in_pos0, positive_dir) ==
    LET piece_new == IF in_pos0 THEN from_atomic_pos0(p, positive_dir)
                     ELSE from_atomic_pos1(p, positive_dir)
    IN  IF check_raises(<<>>, piece_new) THEN Raised("IndexError")
        ELSE IF bad_boundaries_collision(<<>>, piece_new) THEN None
        ELSE piece_new

attempt_atomic_pos(p, in_pos0, positive_dir) ==
    LET check_string == IF in_pos0 THEN atomic_to_check_string(0, positive_dir)
                        ELSE atomic_to_check_string(1, positive_dir)
        piece_new == IF in_pos0 THEN from_atomic_pos0(p, positive_dir)
                     ELSE from_atomic_pos1(p, positive_dir)
    IN  IF check_raises(check_string, piece_new) THEN Raised("IndexError")
        ELSE IF bad_boundaries_collision(check_string, piece_new) THEN None
        ELSE piece_new

attempt_atomic_pos0(p, positive_dir) == attempt_atomic_pos(p, TRUE, positive_dir)

attempt_atomic_pos1(p, positive_dir) == attempt_atomic_pos(p, FALSE, positive_dir)

\* srs_loop, but a later acceptable candidate is preferred to an earlier one
RECURSIVE srs_loop_last(_, _, _)
srs_loop_last(p, srs_shifts, k) ==
    IF k > Len(srs_shifts) THEN None
    ELSE LET piece_new == from_multi_pos(p, srs_shifts[k])
             later == srs_loop_last(p, srs_shifts, k + 1)
         IN  IF IsRaised(piece_new) THEN piece_new
             ELSE IF check_raises(<<"L", "R", "U", "D">>, piece_new)
             THEN Raised("IndexError")
             ELSE IF later # None THEN later
             ELSE IF ~bad_boundaries_collision(<<"L", "R", "U", "D">>, piece_new)
             THEN piece_new
             ELSE None

\* the for-loop of _try_srs_shifts, from the k-th candidate on
RECURSIVE srs_loop(_, _, _)
srs_loop(p, srs_shifts, k) ==
    IF k > Len(srs_shifts) THEN None
    ELSE LET piece_new == from_multi_pos(p, srs_shifts[k])
         IN  IF IsRaised(piece_new) THEN piece_new
             ELSE IF check_raises(<<"L", "R", "U", "D">>, piece_new)
             THEN Raised("IndexError")
             ELSE IF ~bad_boundaries_collision(<<"L", "R", "U", "D">>, piece_new)
             THEN piece_new
             ELSE srs_loop(p, srs_shifts, k + 1)

\* number of candidates the for-loop of _try_srs_shifts builds and checks,
\* from the k-th candidate on, until it returns
RECURSIVE srs_evaluated(_, _, _)
srs_evaluated(p, srs_shifts, k) ==
    IF k > Len(srs_shifts) THEN 0
    ELSE LET piece_new == from_multi_pos(p, srs_shifts[k])
         IN  IF IsRaised(piece_new) THEN 1
             ELSE IF check_raises(<<"L", "R", "U", "D">>, piece_new) THEN 1
             ELSE IF ~bad_boundaries_collision(<<"L", "R", "U", "D">>, piece_new)
             THEN 1
             ELSE 1 + srs_evaluated(p, srs_shifts, k + 1)

\* try_srs_shifts, but the candidates are looked up with the rotation the
\* piece had before the atomic-rot
try_srs_shifts_source_rot(p, positive_dir) ==
    LET pid == p.pid
        rot == (p.config.rot + (IF positive_dir THEN 3 ELSE 1)) % 4
        srs_shifts == get_srs_candidates(pid, rot, positive_dir)
    IN  srs_loop(p, srs_shifts, 1)

\* p is the piece AFTER the initial atomic-rot
try_srs_shifts(p, positive_dir) ==
    LET pid == p.pid
        rot == p.config.rot
        srs_shifts == get_srs_candidates(pid, rot, positive_dir)
    IN  srs_loop(p, srs_shifts, 1)

\* attempt_atomic_rot, but the rotated piece goes straight to the kick
\* candidates
attempt_atomic_rot_kicks_only(p, positive_dir) ==
    try_srs_shifts(from_atomic_rot(p, positive_dir), positive_dir)

attempt_atomic_rot(p, positive_dir) ==
    LET check_string == atomic_to_check_string(2, positive_dir)
        piece_new == from_atomic_rot(p, positive_dir)
    IN  IF check_raises(check_string, piece_new) THEN Raised("IndexError")
        ELSE IF bad_boundaries_collision(check_string, piece_new)
        THEN try_srs_shifts(piece_new, positive_dir)
        ELSE piece_new

attempt_atomic(move_type, p, pos_dir) ==
    IF move_type = 0 THEN attempt_atomic_pos0(p, pos_dir)
    ELSE IF move_type = 1 THEN attempt_atomic_pos1(p, pos_dir)
    ELSE attempt_atomic_rot(p, pos_dir)

\* (pos_dir, abs-val of delta)
multi_to_dir_delta(delta) ==
    IF delta > 0 THEN <<TRUE, delta>> ELSE <<FALSE, -delta>>

\* multi_loop, but a failing atomic ends the loop with the progress so far
RECURSIVE multi_loop_partial(_, _, _, _)
multi_loop_partial(move_type, p, positive_dir, n) ==
    IF n = 0 THEN p
    ELSE LET result == attempt_atomic(move_type, p, positive_dir)
         IN  IF IsRaised(result) THEN result
             ELSE IF result = None THEN p
             ELSE multi_loop_partial(move_type, result, positive_dir, n - 1)

\* the for-loop of attempt_multi with n iterations left
RECURSIVE multi_loop(_, _, _, _)
multi_loop(move_type, p, positive_dir, n) ==
    IF n = 0 THEN p
    ELSE LET result == attempt_atomic(move_type, p, positive_dir)
         IN  IF result = None \/ IsRaised(result) THEN result
             ELSE multi_loop(move_type, result, positive_dir, n - 1)

\* attempt_multi, but the piece handed in is checked before the atomics run
attempt_multi_checked(move_type, p, delta) ==
    LET dd == multi_to_dir_delta(delta)
        all == <<"L", "R", "U", "D">>
    IN  IF check_raises(all, p) THEN Raised("IndexError")
        ELSE IF bad_boundaries_collision(all, p) THEN None
        ELSE multi_loop(move_type, p, dd[1], dd[2])

attempt_multi(move_type, p, delta) ==
    LET dd == multi_to_dir_delta(delta)
    IN  multi_loop(move_type, p, dd[1], dd[2])

\* attempt_pre, but the piece is shifted by the zero-pos instead of set to it
attempt_pre_shifted(p, delta_rot, delta_pos1) ==
    LET p1 == IF delta_rot # 0 THEN from_multi_rot(p, delta_rot) ELSE p
        zero_pos == get_zero_pos(p1.pid, p1.config.rot)
        p2 == from_multi_pos(p1, zero_pos)
        p3 == IF delta_pos1 # 0 THEN from_multi_pos1(p2, delta_pos1) ELSE p2
    IN  IF check_raises(<<"L", "R">>, p3) THEN Raised("IndexError")
        ELSE IF bad_boundaries_collision(<<"L", "R">>, p3) THEN None
        ELSE p3

\* attempt_pre, but only the boundaries are checked, not the collision
attempt_pre_boundaries_only(p, delta_rot, delta_pos1) ==
    LET p1 == IF delta_rot # 0 THEN from_multi_rot(p, delta_rot) ELSE p
        zero_pos == get_zero_pos(p1.pid, p1.config.rot)
        p2 == to_absolute_pos(p1, zero_pos)
        p3 == IF delta_pos1 # 0 THEN from_multi_pos1(p2, delta_pos1) ELSE p2
    IN  IF bad_boundaries(p3, <<"L", "R">>) THEN None ELSE p3

attempt_pre(p, delta_rot, delta_pos1) ==
    LET p1 == IF delta_rot # 0 THEN from_multi_rot(p, delta_rot) ELSE p
        zero_pos == get_zero_pos(p1.pid, p1.config.rot)
        p2 == to_absolute_pos(p1, zero_pos)
        p3 == IF delta_pos1 # 0 THEN from_multi_pos1(p2, delta_pos1) ELSE p2
    IN  IF check_raises(<<"L", "R">>, p3) THEN Raised("IndexError")
        ELSE IF bad_boundaries_collision(<<"L", "R">>, p3) THEN None
        ELSE p3

\* the cells bad_boundaries_collision hands to Field.has_collision: those of
\* the piece when none of the boundaries asked for is violated, none otherwise
collision_reads(check_str, p) ==
    IF bad_boundaries(p, check_str) THEN {}
    ELSE {p.coord[i] : i \in 1..Len(p.coord)}

\* the cells handed to has_collision by the for-loop of _try_srs_shifts, from
\* the k-th candidate on
RECURSIVE srs_reads(_, _, _)
srs_reads(p, srs_shifts, k) ==
    IF k > Len(srs_shifts) THEN {}
    ELSE LET piece_new == from_multi_pos(p, srs_shifts[k])
             all == <<"L", "R", "U", "D">>
         IN  IF IsRaised(piece_new) THEN {}
             ELSE IF check_raises(all, piece_new)
                     \/ ~bad_boundaries_collision(all, piece_new)
             THEN collision_reads(all, piece_new)
             ELSE collision_reads(all, piece_new)
                      \cup srs_reads(p, srs_shifts, k + 1)

\* the cells handed to has_collision by one attempt_atomic
atomic_reads(move_type, p, pos_dir) ==
    LET check_string == atomic_to_check_string(move_type, pos_dir)
        piece_new == IF move_type = 0 THEN from_atomic_pos0(p, pos_dir)
                     ELSE IF move_type = 1 THEN from_atomic_pos1(p, pos_dir)
                     ELSE from_atomic_rot(p, pos_dir)
    IN  IF move_type = 2 /\ ~check_raises(check_string, piece_new)
                         /\ bad_boundaries_collision(check_string, piece_new)
        THEN collision_reads(check_string, piece_new)
                 \cup srs_reads(piece_new,
                                get_srs_candidates(piece_new.pid,
                                                   piece_new.config.rot, pos_dir),
                                1)
        ELSE collision_reads(check_string, piece_new)

\* the cells handed to has_collision by the atomics of one attempt_multi
RECURSIVE multi_reads(_, _, _, _)
multi_reads(move_type, p, positive_dir, n) ==
    IF n = 0 THEN {}
    ELSE LET result == attempt_atomic(move_type, p, positive_dir)
         IN  IF result = None \/ IsRaised(result)
             THEN atomic_reads(move_type, p, positive_dir)
             ELSE atomic_reads(move_type, p, positive_dir)
                      \cup multi_reads(move_type, result, positive_dir, n - 1)

\* the cells handed to has_collision by attempt_pre
pre_reads(p, delta_rot, delta_pos1) ==
    LET p1 == IF delta_rot # 0 THEN from_multi_rot(p, delta_rot) ELSE p
        zero_pos == get_zero_pos(p1.pid, p1.config.rot)
        p2 == to_absolute_pos(p1, zero_pos)
        p3 == IF delta_pos1 # 0 THEN from_multi_pos1(p2, delta_pos1) ELSE p2
    IN  collision_reads(<<"L", "R">>, p3)

\* ------------------------------------------------------ generator (baggen.py)
refill_by == 20
refill_threshold == 10
pre_fill == 50

\* np.arange(7), the bag the Engine hands to its Sequencer
Bag7 == <<0, 1, 2, 3, 4, 5, 6>>

\* math.ceil(a / b)
CeilDiv(a, b) == (a + b - 1) \div b

Reverse(s) == [i \in 1..Len(s) |-> s[Len(s) + 1 - i]]

\* _Reservoir.refill
refill(data, new_data) == data \o new_data

\* _Reservoir.need_refill
need_refill(data) == Len(data) < refill_threshold

\* read_pop_check, but the check for a refill looks at the reservoir before
\* the first item is popped
read_pop_check_stale(data, n_items) ==
    [items |-> SubSeq(data, 1, IF n_items < Len(data) THEN n_items ELSE Len(data)),
     data |-> SubSeq(data, 2, Len(data)),
     need_refill |-> need_refill(data)]

\* _Reservoir.read_pop_check: the items data[0:n_items], the data left,
\* data[1:], and whether a refill is needed
read_pop_check(data, n_items) ==
    [items |-> SubSeq(data, 1, IF n_items < Len(data) THEN n_items ELSE Len(data)),
     data |-> SubSeq(data, 2, Len(data)),
     need_refill |-> need_refill(SubSeq(data, 2, Len(data)))]

\* the bags gen_bag can return: the bag itself for the Sequencer, a
\* permutation of it for the Shuffler, of which the bag and the bag read
\* backwards are followed here
gen_bag(g) == IF g.kind = "Sequencer" THEN {g.bag} ELSE {g.bag, Reverse(g.bag)}

\* the results of n_bags calls of gen_bag
BagChoices(g, n_bags) == [1..n_bags -> gen_bag(g)]

\* gen_bags, but the last bag is cut so that refill_by items are written
gen_bags_cut(g, new_bags) ==
    LET all[k \in 0..Len(new_bags)] ==
            IF k = 0 THEN <<>> ELSE refill(all[k - 1], new_bags[k])
        new_data == all[Len(new_bags)]
        n == IF Len(g.reservoir) = 0 THEN Len(new_data) ELSE refill_by
    IN  [g EXCEPT !.reservoir = refill(@, SubSeq(new_data, 1, n))]

RECURSIVE gen_bags(_, _)
\* _GeneratorBag.gen_bags(n_bags), new_bags being what its n_bags calls of
\* gen_bag return
gen_bags(g, new_bags) ==
    IF Len(new_bags) = 0 THEN g
    ELSE gen_bags([g EXCEPT !.reservoir = refill(@, new_bags[1])],
                  SubSeq(new_bags, 2, Len(new_bags)))

refill_by_bags(g) == CeilDiv(refill_by, Len(g.bag))

\* _GeneratorBag.__init__: the reservoir is pre-filled
GeneratorBag(kind, bag, new_bags) ==
    gen_bags([kind |-> kind, bag |-> bag, reservoir |-> <<>>], new_bags)

Sequencer(bag) ==
    GeneratorBag("Sequencer", bag, [k \in 1..CeilDiv(pre_fill, Len(bag)) |-> bag])

\* _GeneratorBag.get_pids(n_pids): the pids returned and the generator after
\* the call; new_bags is what gen_bag returns should the call refill
get_pids(g, n_pids, new_bags) ==
    LET checked == read_pop_check(g.reservoir, n_pids)
        popped == [g EXCEPT !.reservoir = checked.data]
    IN  [curr_pids |-> checked.items,
         generator |-> IF checked.need_refill THEN gen_bags(popped, new_bags)
                       ELSE popped]

\* --------------------------------------------------------- Engine (engine.py)
MoveTypes == {0, 1, 2}

\* fields a session can have built up when a piece is spawned
Obstacles == {<<Rows - 2, 2>>, <<Rows - 1, Cols - 1>>}

InitFields == SUBSET Obstacles

\* iterations of one attempt_maxout the model follows: a maxout of a
\* translation succeeds fewer times than the field is high or wide
MaxoutBound == size[1] + size[2]

NoOp == [op |-> "none"]

\* Engine.init_piece has just run: a new pid at the (-4, 0, 0)-config
Init ==
    /\ size = <<Rows, Cols>>
    /\ field \in InitFields
    /\ \E pid \in 0..6 : piece = from_init(pid, Config(<<-4, 0>>, 0))
    /\ ret = None
    /\ last = NoOp
    /\ is_game_over = FALSE
    /\ pc = "pre"
    /\ loc = None
    /\ steps = 0
    /\ generator = Sequencer(Bag7)

\* exec_pre, but the result is stored before it is looked at
exec_pre_stores_first(delta_rot, delta_pos1) ==
    /\ pc = "pre"
    /\ last = NoOp
    /\ LET result_pre == attempt_pre(piece, delta_rot, delta_pos1)
       IN  /\ ret' = result_pre
           /\ piece' = result_pre
           /\ IF IsRaised(result_pre)
              THEN pc' = "raised" /\ UNCHANGED is_game_over
              ELSE IF result_pre # None
              THEN pc' = "move" /\ UNCHANGED is_game_over
              ELSE is_game_over' = TRUE /\ pc' = "over"
    /\ last' = [op |-> "pre", delta_rot |-> delta_rot, delta_pos1 |-> delta_pos1,
                inp |-> piece]
    /\ UNCHANGED <<size, field, loc, steps, generator>>

exec_pre(delta_rot, delta_pos1) ==
    /\ pc = "pre"
    /\ last = NoOp
    /\ LET result_pre == attempt_pre(piece, delta_rot, delta_pos1)
       IN  /\ ret' = result_pre
           /\ IF IsRaised(result_pre)
              THEN pc' = "raised" /\ UNCHANGED <<piece, is_game_over>>
              ELSE IF result_pre # None
              THEN piece' = result_pre /\ pc' = "move" /\ UNCHANGED is_game_over
              ELSE is_game_over' = TRUE /\ pc' = "over" /\ UNCHANGED piece
    /\ last' = [op |-> "pre", delta_rot |-> delta_rot, delta_pos1 |-> delta_pos1,
                inp |-> piece]
    /\ UNCHANGED <<size, field, loc, steps, generator>>

\* exec_atomic, but a rotation turns the piece handed in before it is
\* checked, so that a rotation that fails leaves it turned
exec_atomic_in_place(move_type, pos_dir) ==
    /\ pc = "move"
    /\ last = NoOp
    /\ LET piece_new == attempt_atomic(move_type, piece, pos_dir)
       IN  /\ ret' = piece_new
           /\ IF IsRaised(piece_new) THEN pc' = "raised" /\ UNCHANGED piece
              ELSE IF piece_new # None THEN piece' = piece_new /\ UNCHANGED pc
              ELSE /\ piece' = IF move_type \in {0, 1} THEN piece
                               ELSE from_atomic_rot(piece, pos_dir)
                   /\ UNCHANGED pc
    /\ last' = [op |-> "atomic", move_type |-> move_type, pos_dir |-> pos_dir,
                inp |-> piece]
    /\ UNCHANGED <<size, field, is_game_over, loc, steps, generator>>

exec_atomic(move_type, pos_dir) ==
    /\ pc = "move"
    /\ last = NoOp
    /\ LET piece_new == attempt_atomic(move_type, piece, pos_dir)
       IN  /\ ret' = piece_new
           /\ IF IsRaised(piece_new) THEN pc' = "raised" /\ UNCHANGED piece
              ELSE IF piece_new # None THEN piece' = piece_new /\ UNCHANGED pc
              ELSE UNCHANGED <<piece, pc>>
    /\ last' = [op |-> "atomic", move_type |-> move_type, pos_dir |-> pos_dir,
                inp |-> piece]
    /\ UNCHANGED <<size, field, is_game_over, loc, steps, generator>>

\* Engine.exec_multi treating a failed move as exec_pre treats a failed
\* pre-placement: the game is declared over
exec_multi_game_over(move_type, delta) ==
    /\ pc = "move"
    /\ last = NoOp
    /\ LET piece_new == attempt_multi(move_type, piece, delta)
       IN  /\ ret' = piece_new
           /\ IF IsRaised(piece_new)
              THEN pc' = "raised" /\ UNCHANGED <<piece, is_game_over>>
              ELSE IF piece_new # None
              THEN piece' = piece_new /\ UNCHANGED <<pc, is_game_over>>
              ELSE is_game_over' = TRUE /\ UNCHANGED <<piece, pc>>
    /\ last' = [op |-> "multi", move_type |-> move_type, delta |-> delta,
                inp |-> piece]
    /\ UNCHANGED <<size, field, loc, steps, generator>>

exec_multi(move_type, delta) ==
    /\ pc = "move"
    /\ last = NoOp
    /\ LET piece_new == attempt_multi(move_type, piece, delta)
       IN  /\ ret' = piece_new
           /\ IF IsRaised(piece_new) THEN pc' = "raised" /\ UNCHANGED piece
              ELSE IF piece_new # None THEN piece' = piece_new /\ UNCHANGED pc
              ELSE UNCHANGED <<piece, pc>>
    /\ last' = [op |-> "multi", move_type |-> move_type, delta |-> delta,
                inp |-> piece]
    /\ UNCHANGED <<size, field, is_game_over, loc, steps, generator>>

\* the same maxout has just returned: the one operation that may follow an
\* operation at once, before the caller has dropped what it returned
SameMaxout(move_type, pos_dir) ==
    /\ last.op \in {"maxout", "drop"}
    /\ last.move_type = move_type
    /\ last.pos_dir = pos_dir
    /\ ~last.again

\* the call of Mover.attempt_maxout up to the head of its while-loop
maxout_call(op, move_type, pos_dir) ==
    /\ pc = "move"
    /\ last = NoOp \/ SameMaxout(move_type, pos_dir)
    /\ pc' = "maxout"
    /\ loc' = piece
    /\ steps' = 0
    /\ last' = [op |-> op, move_type |-> move_type, pos_dir |-> pos_dir,
                inp |-> piece, again |-> (last # NoOp)]
    /\ UNCHANGED <<size, field, piece, ret, is_game_over, generator>>

exec_maxout(move_type, pos_dir) == maxout_call("maxout", move_type, pos_dir)

exec_drop == maxout_call("drop", 0, TRUE)

\* maxout_step, but the call returns the piece of the atomic that failed
maxout_step_overshoot ==
    /\ pc = "maxout"
    /\ steps <= MaxoutBound
    /\ LET result == attempt_atomic(last.move_type, loc, last.pos_dir)
           over == IF last.move_type = 0 THEN from_atomic_pos0(loc, last.pos_dir)
                   ELSE IF last.move_type = 1
                   THEN from_atomic_pos1(loc, last.pos_dir)
                   ELSE from_atomic_rot(loc, last.pos_dir)
       IN  IF IsRaised(result)
           THEN /\ pc' = "raised"
                /\ ret' = result
                /\ UNCHANGED <<piece, loc, steps>>
           ELSE IF result = None
           THEN /\ pc' = "move"
                /\ ret' = over
                /\ piece' = over
                /\ loc' = None
                /\ UNCHANGED steps
           ELSE /\ loc' = result
                /\ steps' = steps + 1
                /\ UNCHANGED <<pc, ret, piece>>
    /\ UNCHANGED <<size, field, last, is_game_over, generator>>

\* maxout_step, but the call returns the piece it was given
maxout_step_input ==
    /\ pc = "maxout"
    /\ steps <= MaxoutBound
    /\ LET result == attempt_atomic(last.move_type, loc, last.pos_dir)
       IN  IF IsRaised(result)
           THEN /\ pc' = "raised"
                /\ ret' = result
                /\ UNCHANGED <<piece, loc, steps>>
           ELSE IF result = None
           THEN /\ pc' = "move"
                /\ ret' = piece
                /\ loc' = None
                /\ UNCHANGED <<steps, piece>>
           ELSE /\ loc' = result
                /\ steps' = steps + 1
                /\ UNCHANGED <<pc, ret, piece>>
    /\ UNCHANGED <<size, field, last, is_game_over, generator>>

\* one iteration of the while-loop of Mover.attempt_maxout; when the atomic
\* fails the call returns and the engine stores the piece
maxout_step ==
    /\ pc = "maxout"
    /\ steps <= MaxoutBound
    /\ LET result == attempt_atomic(last.move_type, loc, last.pos_dir)
       IN  IF IsRaised(result)
           THEN /\ pc' = "raised"
                /\ ret' = result
                /\ UNCHANGED <<piece, loc, steps>>
           ELSE IF result = None
           THEN /\ pc' = "move"
                /\ ret' = loc
                /\ piece' = loc
                /\ loc' = None
                /\ UNCHANGED steps
           ELSE /\ loc' = result
                /\ steps' = steps + 1
                /\ UNCHANGED <<pc, ret, piece>>
    /\ UNCHANGED <<size, field, last, is_game_over, generator>>

\* the caller is done with what the operation returned and waits for the
\* next input
handler_done ==
    /\ pc = "move"
    /\ last # NoOp
    /\ last' = NoOp
    /\ ret' = None
    /\ steps' = 0
    /\ UNCHANGED <<size, field, piece, is_game_over, pc, loc, generator>>

Next ==
    \/ \E delta_rot \in (-MaxDelta)..(MaxDelta + 1), delta_pos1 \in (-1)..Cols :
           exec_pre(delta_rot, delta_pos1)
    \/ \E move_type \in MoveTypes, pos_dir \in BOOLEAN :
           exec_atomic(move_type, pos_dir)
    \/ \E move_type \in MoveTypes, delta \in (-MaxDelta)..MaxDelta :
           exec_multi(move_type, delta)
    \/ \E move_type \in MoveTypes, pos_dir \in BOOLEAN :
           exec_maxout(move_type, pos_dir)
    \/ exec_drop
    \/ maxout_step
    \/ handler_done

Spec == Init /\ [][Next]_vars

\* ------------------------------------------- lookups of the Mover, call by call
\* sizes a Field (and with it the BoundaryAnalyzer) is made for: the standard
\* one, whose ranges are hard-coded, and others, whose ranges are computed
Sizes == {<<20, 10>>, <<Rows, Cols>>, <<Rows - 3, Cols - 2>>}

\* how far beyond the field a reference position is taken
PosMargin == 4

InitLookup ==
    /\ size \in Sizes
    /\ field = {}
    /\ \E pid \in 0..6, rot \in 0..3,
          pos0 \in (-PosMargin)..(size[1] + 1),
          pos1 \in (-PosMargin)..(size[2] + 1) :
           piece = from_init(pid, Config(<<pos0, pos1>>, rot))
    /\ ret = None
    /\ last = NoOp
    /\ is_game_over = FALSE
    /\ pc = "lookup"
    /\ loc = None
    /\ steps = 0
    /\ generator = Sequencer(Bag7)

\* Mover._bad_boundaries(piece, (c,)), next to what
\* Field.exceeded_boundaries((c,), piece.coord) says of the same piece
check_boundary(c) ==
    /\ pc = "lookup"
    /\ last = NoOp
    /\ ret' = bad_boundaries(piece, <<c>>)
    /\ last' = [op |-> "boundary", check |-> c,
                exceeded |-> exceeded_boundaries(<<c>>, piece.coord)]
    /\ UNCHANGED <<size, field, piece, is_game_over, pc, loc, steps, generator>>

\* Kick.get_srs_candidates for the piece's pid and rot
kick_lookup(positive_dir) ==
    /\ pc = "lookup"
    /\ last = NoOp
    /\ ret' = get_srs_candidates(piece.pid, piece.config.rot, positive_dir)
    /\ last' = [op |-> "kick", pid |-> piece.pid, rot |-> piece.config.rot,
                positive_dir |-> positive_dir]
    /\ UNCHANGED <<size, field, piece, is_game_over, pc, loc, steps, generator>>

NextLookup ==
    \/ \E c \in {"U", "D", "L", "R"} : check_boundary(c)
    \/ \E positive_dir \in BOOLEAN : kick_lookup(positive_dir)

SpecLookup == InitLookup /\ [][NextLookup]_vars

\* ------------------------------------------------------ lineclear (field.py)
FieldRows == 5
FieldCols == 3

\* the cells of row r when the row is empty, full, or holds its leftmost or
\* its rightmost cell only
RowCells(r, kind, cols) ==
    CASE kind = "empty" -> {}
      [] kind = "full"  -> {<<r, c>> : c \in 0..(cols - 1)}
      [] kind = "left"  -> {<<r, 0>>}
      [] kind = "right" -> {<<r, cols - 1>>}

RowKinds == {"empty", "full", "left", "right"}

\* f is the set of occupied cells
is_fullrow(f, r) == \A c \in 0..(size[2] - 1) : <<r, c>> \in f

\* indexes of the full rows within target_range, increasing; None, which is
\* the empty sequence here, without any
full_row_num(f, target_range) ==
    LET lower_than == target_range[1]
        higher_than == target_range[2]
        rows[r \in (lower_than - 1)..(higher_than - 1)] ==
            IF r < lower_than THEN <<>>
            ELSE IF is_fullrow(f, r) THEN Append(rows[r - 1], r)
            ELSE rows[r - 1]
        fullrow_numbers == rows[higher_than - 1]
    IN  IF lower_than >= higher_than THEN <<>> ELSE fullrow_numbers

\* break_into_chunks, but the rows all end up in one chunk
break_into_chunks_merged(all_lines) == <<all_lines>>

break_into_chunks(all_lines) ==
    LET \* <<chunks, curr>> after the k-th element of all_lines
        st[k \in 1..Len(all_lines)] ==
            IF k = 1 THEN << <<>>, <<all_lines[1]>> >>
            ELSE LET chunks == st[k - 1][1]
                     curr == st[k - 1][2]
                     idx == all_lines[k]
                 IN  IF idx = curr[Len(curr)] + 1
                     THEN <<chunks, Append(curr, idx)>>
                     ELSE <<Append(chunks, curr), <<idx>>>>
        end == st[Len(all_lines)]
    IN  Append(end[1], end[2])

idx_nonzero(f, higher_than) == {cell \in f : cell[1] < higher_than}

make_shifted_pos0(idx, shift) == {<<cell[1] + shift, cell[2]>> : cell \in idx}

set_from_idx_pair(f, idx_old, idx_new) == (f \ idx_old) \cup idx_new

set_rows(f, rows) == {cell \in f : \A k \in 1..Len(rows) : cell[1] # rows[k]}

\* lineclear_chunk, but what is above the chunk moves down one row only
lineclear_chunk_by_one(f, chunk) ==
    LET cleared == set_rows(f, chunk)
        above == idx_nonzero(cleared, SeqMin(chunk))
    IN  set_from_idx_pair(cleared, above, make_shifted_pos0(above, 1))

\* the field after _lineclear_chunk(chunk) on the field f
lineclear_chunk(f, chunk) ==
    LET cleared == set_rows(f, chunk)
        higher_than == SeqMin(chunk)
        n_full_rows == Len(chunk)
        above == idx_nonzero(cleared, higher_than)
        idx_new == make_shifted_pos0(above, n_full_rows)
    IN  set_from_idx_pair(cleared, above, idx_new)

InitField ==
    /\ size = <<FieldRows, FieldCols>>
    /\ \E kind \in [0..(FieldRows - 1) -> RowKinds] :
           field = UNION {RowCells(r, kind[r], FieldCols) : r \in 0..(FieldRows - 1)}
    /\ piece = None
    /\ ret = None
    /\ last = NoOp
    /\ is_game_over = FALSE
    /\ pc = "field"
    /\ loc = None
    /\ steps = 0
    /\ generator = Sequencer(Bag7)

\* Field.lineclear(span_of_piece); the span is None or the pair of its ends,
\* here the record [lo, hi]
lineclear(span_of_piece) ==
    /\ pc = "field"
    /\ last = NoOp
    /\ LET target_range == IF span_of_piece = None THEN <<0, size[1]>>
                           ELSE <<span_of_piece.lo, span_of_piece.hi>>
           full_rows == full_row_num(field, target_range)
           chunks == IF full_rows # <<>> THEN break_into_chunks(full_rows)
                     ELSE <<>>
           after[k \in 0..Len(chunks)] ==
               IF k = 0 THEN field ELSE lineclear_chunk(after[k - 1], chunks[k])
       IN  /\ field' = after[Len(chunks)]
           /\ ret' = chunks
           /\ last' = [op |-> "lineclear", span |-> target_range,
                       before |-> field]
    /\ UNCHANGED <<size, piece, is_game_over, pc, loc, steps, generator>>

Spans == {None} \cup [lo : 0..FieldRows, hi : 0..FieldRows]

NextField == \E span_of_piece \in Spans : lineclear(span_of_piece)

SpecField == InitField /\ [][NextField]_vars

\* ------------------------------------- pre-placement and its BoundaryAnalyzer
\* sizes an Engine is built with: the standard one, its neighbours, and small
\* ones that every shape still fits into
PreSizes ==
    {<<20, 10>>, <<19, 10>>, <<20, 9>>, <<Rows, Cols>>, <<Rows - 1, Cols - 1>>}

\* cells of the top rows a session can have filled when a piece is spawned
PreObstacles == {<<0, 1>>, <<1, 0>>}

\* reference positions of the piece handed to attempt_pre: the one of
\* init_piece, and another one
PrePositions == {<<-4, 0>>, <<1, 1>>}

InitPre ==
    /\ size \in PreSizes
    /\ field \in SUBSET PreObstacles
    /\ \E pid \in 0..6, rot \in 0..3, pos \in PrePositions :
           piece = from_init(pid, Config(pos, rot))
    /\ ret = None
    /\ last = NoOp
    /\ is_game_over = FALSE
    /\ pc = "pre"
    /\ loc = None
    /\ steps = 0
    /\ generator = Sequencer(Bag7)

\* BoundaryAnalyzer.get_valid_range for the piece's pid and rot
range_lookup(is_pos0, pos_dir) ==
    /\ pc = "pre"
    /\ last = NoOp
    /\ ret' = get_valid_range(piece.pid, piece.config.rot, is_pos0, pos_dir)
    /\ last' = [op |-> "range", is_pos0 |-> is_pos0, pos_dir |-> pos_dir]
    /\ UNCHANGED <<size, field, piece, is_game_over, pc, loc, steps, generator>>

\* BoundaryAnalyzer.get_zero_pos for the piece's pid and rot
zero_pos_lookup ==
    /\ pc = "pre"
    /\ last = NoOp
    /\ ret' = get_zero_pos(piece.pid, piece.config.rot)
    /\ last' = [op |-> "zero_pos"]
    /\ UNCHANGED <<size, field, piece, is_game_over, pc, loc, steps, generator>>

\* a BoundaryAnalyzer is made for the field with one more row (is_pos0) or
\* one more column; last keeps what the one before it said of the piece
enlarge(is_pos0) ==
    /\ pc = "pre"
    /\ last = NoOp
    /\ size' = IF is_pos0 THEN <<size[1] + 1, size[2]>>
               ELSE <<size[1], size[2] + 1>>
    /\ last' = [op |-> "enlarge", is_pos0 |-> is_pos0,
                limits |-> [a \in BOOLEAN, d \in BOOLEAN |->
                               get_valid_range(piece.pid, piece.config.rot, a, d)],
                was_bad |-> bad_boundaries(piece, <<"L", "R", "U", "D">>)]
    /\ UNCHANGED <<field, piece, ret, is_game_over, pc, loc, steps, generator>>

NextPre ==
    \/ \E delta_rot \in (-MaxDelta)..(MaxDelta + 1),
          delta_pos1 \in (-2)..(size[2] + 1) :
           exec_pre(delta_rot, delta_pos1)
    \/ \E is_pos0 \in BOOLEAN, pos_dir \in BOOLEAN :
           range_lookup(is_pos0, pos_dir)
    \/ zero_pos_lookup
    \/ \E is_pos0 \in BOOLEAN : enlarge(is_pos0)

SpecPre == InitPre /\ [][NextPre]_vars

\* ------------------------------------- a session: pieces, freeze, reset (engine.py)
\* Field.set_many(coords, True): every cell is written through numpy's
\* indexing, where a negative index counts from the end
set_many(f, coords) ==
    f \cup {<<NormIdx(coords[i][1], size[1]), NormIdx(coords[i][2], size[2])>> :
                i \in 1..Len(coords)}

\* Field.lineclear(span_of_piece) on the field f: the field it leaves and the
\* chunks it returns
lineclear_on(f, span_of_piece) ==
    LET target_range == span_of_piece
        full_rows == full_row_num(f, target_range)
        chunks == IF full_rows # <<>> THEN break_into_chunks(full_rows)
                  ELSE <<>>
        after[k \in 0..Len(chunks)] ==
            IF k = 0 THEN f ELSE lineclear_chunk(after[k - 1], chunks[k])
    IN  [field |-> after[Len(chunks)], chunks |-> chunks]

\* pieces a generator hands out before the session stops spawning
MaxPieces == 8

SessionSize == <<Rows - 1, Cols - 1>>

\* the cells of row r from column c0 to the right wall
RowFrom(r, c0) == {<<r, c>> : c \in c0..(SessionSize[2] - 1)}

\* fields a session can have built up: the empty one, one whose two lowest
\* rows lack their two leftmost cells, and one whose lowest row and the row
\* two above it lack their leftmost cell
SessionFields ==
    {{},
     RowFrom(SessionSize[1] - 1, 2) \cup RowFrom(SessionSize[1] - 2, 2),
     RowFrom(SessionSize[1] - 1, 1) \cup RowFrom(SessionSize[1] - 3, 1)}

\* the bags a refill of the Engine's Sequencer writes
SequencerBags(g) == [k \in 1..refill_by_bags(g) |-> g.bag]

RECURSIVE after_pieces(_, _)
\* the Engine's generator after k calls of init_piece
after_pieces(g, k) ==
    IF k = 0 THEN g
    ELSE after_pieces(get_pids(g, 2, SequencerBags(g)).generator, k - 1)

\* number of calls of get_pids since the generator was made, while it has
\* not refilled
Drawn(g) == CeilDiv(pre_fill, Len(g.bag)) * Len(g.bag) - Len(g.reservoir)

\* init_piece has just run for the k-th time since the generator was made
InitSession ==
    /\ size = SessionSize
    /\ field \in SessionFields
    /\ \E k \in 1..Len(Bag7) :
           /\ generator = after_pieces(Sequencer(Bag7), k)
           /\ piece = from_init(Bag7[k], Config(<<-4, 0>>, 0))
    /\ ret = None
    /\ last = NoOp
    /\ is_game_over = FALSE
    /\ pc = "pre"
    /\ loc = None
    /\ steps = 0

\* init_piece, but a new piece starts the game anew
init_piece_restarts ==
    /\ pc \in {"spawn", "over", "reset"}
    /\ Drawn(generator) < MaxPieces
    /\ \E new_bags \in BagChoices(generator, refill_by_bags(generator)) :
           LET pids == get_pids(generator, 2, new_bags)
           IN  /\ piece' = from_init(pids.curr_pids[1], Config(<<-4, 0>>, 0))
               /\ generator' = pids.generator
    /\ pc' = "pre"
    /\ last' = NoOp
    /\ ret' = None
    /\ is_game_over' = FALSE
    /\ UNCHANGED <<size, field, loc, steps>>

\* Engine.init_piece: the pid is the first of the two the generator returns;
\* the callers spawn the next piece at the start of a step, which follows a
\* freeze, a game over or a reset
init_piece ==
    /\ pc \in {"spawn", "over", "reset"}
    /\ Drawn(generator) < MaxPieces
    /\ \E new_bags \in BagChoices(generator, refill_by_bags(generator)) :
           LET pids == get_pids(generator, 2, new_bags)
           IN  /\ piece' = from_init(pids.curr_pids[1], Config(<<-4, 0>>, 0))
               /\ generator' = pids.generator
    /\ pc' = "pre"
    /\ last' = NoOp
    /\ ret' = None
    /\ UNCHANGED <<size, field, is_game_over, loc, steps>>

\* Engine.exec_freeze: the method has no return statement, its caller gets
\* None; last keeps the piece, the field before and what lineclear returned
exec_freeze ==
    /\ pc = "move"
    /\ last = NoOp \/ last.op = "drop"
    /\ LET written == set_many(field, piece.coord)
           vertical_range == get_range(piece.pid, piece.config, TRUE)
           cleared == lineclear_on(written, vertical_range)
       IN  /\ field' = cleared.field
           /\ last' = [op |-> "freeze", inp |-> piece, before |-> field,
                       chunks |-> cleared.chunks]
    /\ ret' = None
    /\ pc' = "frozen"
    /\ UNCHANGED <<size, piece, is_game_over, loc, steps, generator>>

\* Engine.reset: an all-zero field and is_game_over False; the piece stays
\* until the next init_piece
reset ==
    /\ pc \in {"over", "frozen", "move"}
    /\ pc = "move" => last = NoOp
    /\ field' = {}
    /\ is_game_over' = FALSE
    /\ pc' = "reset"
    /\ generator' = Sequencer(Bag7)
    /\ last' = [op |-> "reset"]
    /\ ret' = None
    /\ UNCHANGED <<size, piece, loc, steps>>

NextSession ==
    \/ init_piece
    \/ \E delta_rot \in (-1)..MaxDelta, delta_pos1 \in (-1)..(size[2] - 1) :
           exec_pre(delta_rot, delta_pos1)
    \/ \E move_type \in MoveTypes, pos_dir \in BOOLEAN :
           exec_atomic(move_type, pos_dir)
    \/ \E move_type \in MoveTypes, delta \in {-MaxDelta, MaxDelta} :
           exec_multi(move_type, delta)
    \/ \E move_type \in MoveTypes, pos_dir \in BOOLEAN :
           exec_maxout(move_type, pos_dir)
    \/ exec_drop
    \/ maxout_step
    \/ exec_freeze
    \/ reset
    \/ handler_done

SpecSession == InitSession /\ [][NextSession]_vars

\* ------------------------------------ single calls on a piece, one call per run
\* occupied cells of the small field
CallObstacles == {<<0, 1>>, <<2, 2>>}

\* the check strings the Mover hands to bad_boundaries_collision: one letter
\* for a translation, "LR" for the pre-placement, "LRUD" for a rotation
CheckStrings ==
    {<<"D">>, <<"U">>, <<"R">>, <<"L">>, <<"L", "R">>, <<"L", "R", "U", "D">>}

\* a spawned piece over the standard field, or a piece anywhere on and
\* around a small field
InitCall ==
    /\ \/ /\ size = <<20, 10>>
          /\ field = {}
          /\ \E pid \in 0..6 : piece = from_init(pid, Config(<<-4, 0>>, 0))
       \/ /\ size = SessionSize
          /\ field \in SUBSET CallObstacles
          /\ \E pid \in 0..6, rot \in 0..3,
                pos0 \in (-PosMargin)..(size[1] + 1),
                pos1 \in (-PosMargin)..(size[2] + 1) :
                 piece = from_init(pid, Config(<<pos0, pos1>>, rot))
    /\ ret = None
    /\ last = NoOp
    /\ is_game_over = FALSE
    /\ pc = "call"
    /\ loc = None
    /\ steps = 0
    /\ generator = Sequencer(Bag7)

\* RelCoord.get_rel_coord for the piece's pid and rot
shape_lookup ==
    /\ pc = "call"
    /\ last = NoOp
    /\ ret' = get_rel_coord(piece.pid, piece.config.rot)
    /\ last' = [op |-> "shape"]
    /\ UNCHANGED <<size, field, piece, is_game_over, pc, loc, steps, generator>>

\* RelCoord.get_rel_range for the piece's pid and rot
rel_range_lookup(is_pos0) ==
    /\ pc = "call"
    /\ last = NoOp
    /\ ret' = get_rel_range(piece.pid, piece.config.rot, is_pos0)
    /\ last' = [op |-> "rel_range", is_pos0 |-> is_pos0]
    /\ UNCHANGED <<size, field, piece, is_game_over, pc, loc, steps, generator>>

\* the first step of Mover.attempt_pre: the rotation of the piece it is given
pre_rotate(delta_rot) ==
    /\ pc = "call"
    /\ last = NoOp
    /\ ret' = IF delta_rot # 0 THEN from_multi_rot(piece, delta_rot) ELSE piece
    /\ last' = [op |-> "pre_rotate", delta_rot |-> delta_rot]
    /\ UNCHANGED <<size, field, piece, is_game_over, pc, loc, steps, generator>>

\* Mover.bad_boundaries_collision(check_str, piece): what it returns, or the
\* IndexError that comes out of Field.at
legality(check_str) ==
    /\ pc = "call"
    /\ last = NoOp
    /\ ret' = IF check_raises(check_str, piece) THEN Raised("IndexError")
              ELSE [bad |-> bad_boundaries_collision(check_str, piece)]
    /\ last' = [op |-> "legality", check |-> check_str]
    /\ UNCHANGED <<size, field, piece, is_game_over, pc, loc, steps, generator>>

\* one call Mover.attempt_multi(move_type, piece, delta) on the piece as it is
multi_call(move_type, delta) ==
    /\ pc = "call"
    /\ last = NoOp
    /\ ret' = attempt_multi(move_type, piece, delta)
    /\ last' = [op |-> "attempt_multi", move_type |-> move_type,
                delta |-> delta, inp |-> piece]
    /\ UNCHANGED <<size, field, piece, is_game_over, pc, loc, steps, generator>>

NextCall ==
    \/ shape_lookup
    \/ \E is_pos0 \in BOOLEAN : rel_range_lookup(is_pos0)
    \/ \E delta_rot \in (-MaxDelta)..(MaxDelta + 1) : pre_rotate(delta_rot)
    \/ \E check_str \in CheckStrings : legality(check_str)
    \/ \E move_type \in MoveTypes, delta \in {-1, 0, 1} :
           multi_call(move_type, delta)

SpecCall == InitCall /\ [][NextCall]_vars

\* ------------------------------------- the generator on its own (baggen.py)
\* the bags of the generators followed: the Engine's, a bag of one item and a
\* bag that does not divide pre_fill or refill_by
GenBags == {Bag7, <<3>>, <<0, 1, 2, 3>>}

\* the n_pids of the calls followed: one, the default, the threshold, one more
GenCalls == {1, 2, refill_threshold, refill_threshold + 1}

\* a Sequencer or a Shuffler has just been constructed
InitGen ==
    /\ size = SessionSize
    /\ field = {}
    /\ piece = None
    /\ ret = None
    /\ last = NoOp
    /\ is_game_over = FALSE
    /\ pc = "gen"
    /\ loc = None
    /\ steps = 0
    /\ \E bag \in GenBags, kind \in {"Sequencer", "Shuffler"} :
           /\ kind = "Shuffler" => bag = Bag7
           /\ \E new_bags \in BagChoices([kind |-> kind, bag |-> bag],
                                         CeilDiv(pre_fill, Len(bag))) :
                  generator = GeneratorBag(kind, bag, new_bags)

\* one call generator.get_pids(n_pids); last keeps the reservoir before the
\* call and the first elements handed out since the last multiple of the
\* bag's size
get_pids_call(n_pids) ==
    /\ pc = "gen"
    /\ \E new_bags \in BagChoices(generator, refill_by_bags(generator)) :
           LET pids == get_pids(generator, n_pids, new_bags)
           IN  /\ ret' = pids.curr_pids
               /\ generator' = pids.generator
               /\ last' = [op |-> "get_pids", n_pids |-> n_pids,
                           before |-> generator.reservoir,
                           handed |->
                               IF last = NoOp \/ Len(last.handed) = Len(generator.bag)
                               THEN <<pids.curr_pids[1]>>
                               ELSE Append(last.handed, pids.curr_pids[1])]
    /\ UNCHANGED <<size, field, piece, is_game_over, pc, loc, steps>>

NextGen == \E n_pids \in GenCalls : get_pids_call(n_pids)

SpecGen == InitGen /\ [][NextGen]_vars

\* ------------------------------------------ the minimal entry (entry/minimal.py)
\* the limits of the pre-pos1 the player is hinted at: the valid range of the
\* reference column at the rotation asked for, shifted so that it starts at 0
get_shifted_range1(pid, rot) ==
    <<0, get_valid_range(pid, rot, FALSE, TRUE)
             - get_valid_range(pid, rot, FALSE, FALSE)>>

\* Corrector.correct_within: (corrected?, the action within the limit)
correct_within(action, limit) ==
    IF action < limit[1] THEN <<TRUE, limit[1]>>
    ELSE IF action > limit[2] THEN <<TRUE, limit[2]>>
    ELSE <<FALSE, action>>

\* FetcherTerminal.pre_hinted_corrected for the rot and the pos1 typed in:
\* (corrected, pre_rot, pre_pos1)
pre_hinted_corrected(pre_rot, pre_pos1) ==
    LET valid_range == get_shifted_range1(piece.pid, pre_rot)
        corrected == correct_within(pre_pos1, valid_range)
    IN  <<corrected[1], pre_rot, corrected[2]>>

\* EntryMinimal() has been constructed: an Engine with an empty field, no
\* piece yet, and main_loop about to make its first step
InitMinimal ==
    /\ size = SessionSize
    /\ field = {}
    /\ piece = None
    /\ ret = None
    /\ last = NoOp
    /\ is_game_over = FALSE
    /\ pc = "spawn"
    /\ loc = None
    /\ steps = 0
    /\ generator = Sequencer(Bag7)

\* PrePhase.correction_aware, first statement: engine.init_piece() at the
\* start of a step
pre_phase_init == pc \in {"spawn", "reset"} /\ init_piece

\* PrePhase.correction_aware, the rest: the action is fetched, corrected and
\* handed to engine.exec_pre
pre_phase_exec(pre_rot, pre_pos1) ==
    LET action == pre_hinted_corrected(pre_rot, pre_pos1)
    IN  exec_pre(action[2], action[3])

\* step, but it goes on to the move-phase whatever is_game_over says
step_continues_unchecked ==
    /\ pc \in {"move", "over"}
    /\ last # NoOp
    /\ last.op = "pre"
    /\ pc' = "move"
    /\ last' = NoOp
    /\ ret' = None
    /\ UNCHANGED <<size, field, piece, is_game_over, loc, steps, generator>>

\* step after pre_phase when is_game_over is False: the move-phase, which
\* MovePhase.minimal leaves empty, and on to the freeze-phase
step_continues ==
    /\ pc \in {"move", "over"}
    /\ last # NoOp
    /\ last.op = "pre"
    /\ ~is_game_over
    /\ pc' = "move"
    /\ last' = NoOp
    /\ ret' = None
    /\ UNCHANGED <<size, field, piece, is_game_over, loc, steps, generator>>

\* step after pre_phase when is_game_over is True: it returns True, main_loop
\* ends and reset_entry calls engine.reset() before the next main_loop
step_game_over ==
    /\ last # NoOp
    /\ last.op = "pre"
    /\ is_game_over
    /\ reset

\* FreezePhase.with_drop, first statement: engine.exec_drop()
freeze_phase_drop == last = NoOp /\ exec_drop

\* FreezePhase.with_drop, second statement: engine.exec_freeze()
freeze_phase_freeze == last # NoOp /\ last.op = "drop" /\ exec_freeze

\* the step ends with print_field and main_loop starts the next step
step_done ==
    /\ pc = "frozen"
    /\ pc' = "spawn"
    /\ UNCHANGED <<size, field, piece, ret, last, is_game_over, loc, steps,
                   generator>>

NextMinimal ==
    \/ pre_phase_init
    \/ \E pre_rot \in 0..3, pre_pos1 \in (-1)..size[2] :
           pre_phase_exec(pre_rot, pre_pos1)
    \/ step_continues
    \/ step_game_over
    \/ freeze_phase_drop
    \/ maxout_step
    \/ freeze_phase_freeze
    \/ step_done

SpecMinimal == InitMinimal /\ [][NextMinimal]_vars

\* --------------------------------- games: piece after piece on one field
\* pieces of one game
GamePieces == 4

\* the engine as an entry with a move-phase drives it: a piece is spawned,
\* pre-placed, moved at will, frozen, and the next piece follows; a game
\* over is followed by a reset
NextGame ==
    \/ Drawn(generator) < GamePieces /\ pre_phase_init
    \/ \E delta_rot \in 0..3, delta_pos1 \in (-1)..size[2] :
           exec_pre(delta_rot, delta_pos1)
    \/ \E move_type \in MoveTypes, pos_dir \in BOOLEAN :
           exec_atomic(move_type, pos_dir)
    \/ \E move_type \in MoveTypes, delta \in {-MaxDelta, MaxDelta} :
           exec_multi(move_type, delta)
    \/ \E move_type \in {0, 1}, pos_dir \in BOOLEAN :
           exec_maxout(move_type, pos_dir)
    \/ exec_drop
    \/ maxout_step
    \/ handler_done
    \/ exec_freeze
    \/ step_done
    \/ reset

SpecGame == InitMinimal /\ [][NextGame]_vars

\* ------------------------------------------------------------------ claims
\* the unit vector of a translation of move_type 0 or 1
Unit(move_type, pos_dir) ==
    LET d == IF pos_dir THEN 1 ELSE -1
    IN  IF move_type = 0 THEN <<d, 0>> ELSE <<0, d>>

\* the piece p placed k units further along a translation, cells re-derived
Moved(p, move_type, pos_dir, k) ==
    LET u == Unit(move_type, pos_dir)
    IN  from_init(p.pid, Config(<<p.config.pos[1] + k * u[1],
                                  p.config.pos[2] + k * u[2]>>, p.config.rot))

InGrid(cell) == cell[1] \in 0..(size[1] - 1) /\ cell[2] \in 0..(size[2] - 1)

\* within all four boundaries and on no occupied cell, told from the cells
Legal(p) == \A i \in 1..4 : InGrid(p.coord[i]) /\ p.coord[i] \notin field

Abs(n) == IF n < 0 THEN -n ELSE n

\* the atomics of a multi, one after the other: Chain(...)[k] is the piece
\* after the k-th atomic, None from the first failing atomic on
Chain(move_type, p, pos_dir, n) ==
    LET at[k \in 0..n] ==
            IF k = 0 THEN p
            ELSE IF at[k - 1] = None THEN None
            ELSE attempt_atomic(move_type, at[k - 1], pos_dir)
    IN  at

\* C1: attempt_multi is all-or-nothing: when some atomic of the |delta|
\* atomics fails it returns None and the engine's piece stays the piece
\* passed in; when all succeed it returns the piece of the last atomic (for a
\* translation: the input moved by delta)
C1_MultiAllOrNothing ==
    last.op = "multi" =>
        LET n == Abs(last.delta)
            pos_dir == last.delta > 0
            at == Chain(last.move_type, last.inp, pos_dir, n)
        IN  IF \E k \in 1..n : at[k] = None
            THEN ret = None /\ piece = last.inp
            ELSE /\ ret = at[n]
                 /\ piece = ret
                 /\ last.move_type \in {0, 1} =>
                        ret = Moved(last.inp, last.move_type, pos_dir, n)

\* a multi of two atomics whose first atomic succeeds and whose second fails
C1_Witness ==
    /\ last.op = "multi"
    /\ Abs(last.delta) = 2
    /\ ret = None
    /\ attempt_atomic(last.move_type, last.inp, last.delta > 0) # None

MaxoutReturned == last.op \in {"maxout", "drop"} /\ pc = "move"

\* C2: attempt_maxout reaches a failing atomic after a number of successful
\* atomics bounded by the dimensions of the field, for every move type
C2_MaxoutBounded == pc = "maxout" => steps <= MaxoutBound

\* C3: a maxout of a translation returns the input moved by the largest k
\* such that the k successive atomics all succeed, never None; one more
\* atomic from the result fails; a drop is the maxout of pos0 in positive
\* direction and keeps column, rotation and pid
C3_MaxoutLargest ==
    (MaxoutReturned /\ last.move_type \in {0, 1}) =>
        LET p == last.inp
            ok(j) == attempt_atomic(last.move_type,
                                    Moved(p, last.move_type, last.pos_dir, j - 1),
                                    last.pos_dir) # None
            K == CHOOSE k \in 0..MaxoutBound :
                     (\A j \in 1..k : ok(j)) /\ ~ok(k + 1)
        IN  /\ ret = Moved(p, last.move_type, last.pos_dir, K)
            /\ piece = ret
            /\ steps = K
            /\ attempt_atomic(last.move_type, ret, last.pos_dir) = None
            /\ last.op = "drop" =>
                   /\ last.move_type = 0 /\ last.pos_dir
                   /\ ret.pid = p.pid
                   /\ ret.config.rot = p.config.rot
                   /\ ret.config.pos[2] = p.config.pos[2]

\* a drop that moved the piece down by two rows or more
C3_Witness ==
    /\ MaxoutReturned
    /\ last.op = "drop"
    /\ ret.config.pos[1] >= last.inp.config.pos[1] + 2

\* C4: attempt_maxout is idempotent: given the piece the same maxout has
\* just returned, it returns that piece again
C4_MaxoutIdempotent ==
    (MaxoutReturned /\ last.again) => (ret = last.inp /\ piece = last.inp)

\* the second of two equal maxouts of a translation has returned
C4_Witness == MaxoutReturned /\ last.again /\ last.move_type = 1

C4_WitnessRot == MaxoutReturned /\ last.again /\ last.move_type = 2

\* the piece q placed at the offset off from where it is, cells re-derived
Shifted(q, off) ==
    from_init(q.pid, Config(VecAdd(q.config.pos, off), q.config.rot))

\* the piece p rotated where it stands, cells re-derived
RotatedInPlace(p, pos_dir) ==
    from_init(p.pid, [pos |-> p.config.pos,
                      rot |-> (p.config.rot + (IF pos_dir THEN 1 ELSE 3)) % 4])

LegalIdx(q, cands) == {i \in 1..Len(cands) : Legal(Shifted(q, cands[i]))}

\* q at the first offset of cands that makes it legal, None without one
FirstLegal(q, cands) ==
    LET idx == LegalIdx(q, cands)
    IN  IF idx = {} THEN None
        ELSE Shifted(q, cands[CHOOSE i \in idx : \A j \in idx : i <= j])

\* an atomic rotation of an I, S, Z, L, J or T piece has run and the piece
\* rotated in place is not legal
KickCase ==
    /\ last.op = "atomic"
    /\ last.move_type = 2
    /\ last.inp.pid # 0
    /\ ~Legal(RotatedInPlace(last.inp, last.pos_dir))

\* C5: when the rotation in place is illegal, attempt_atomic_rot returns the
\* rotated piece at the first offset of the kick candidate list that is
\* within all four boundaries and collides with nothing, also when a later
\* offset is legal too; it returns None only when no offset of the list is
\* legal
C5_KickFirstLegal ==
    KickCase =>
        LET q == RotatedInPlace(last.inp, last.pos_dir)
            cands == get_srs_candidates(q.pid, q.config.rot, last.pos_dir)
        IN  /\ ret = FirstLegal(q, cands)
            /\ (ret = None) <=> (LegalIdx(q, cands) = {})
            /\ piece = (IF ret = None THEN last.inp ELSE ret)

\* a kick that took a candidate while a later candidate, leading to another
\* place, was legal as well
C5_Witness ==
    /\ KickCase
    /\ ret # None
    /\ LET q == RotatedInPlace(last.inp, last.pos_dir)
           cands == get_srs_candidates(q.pid, q.config.rot, last.pos_dir)
       IN  \E j \in LegalIdx(q, cands) : Shifted(q, cands[j]) # ret

\* row idx (counted from 0) of the kick table of pid's geometry class
KickRow(pid, idx) == IF pid = 1 THEN srs_i[idx + 1] ELSE srs_szljt[idx + 1]

NegBit(pos_dir) == IF pos_dir THEN 0 ELSE 1

C7_KickOfOIsZeroOffset ==
    (last.op = "kick" /\ last.pid = 0) => ret = << <<0, 0>> >>

\* the full rows of the field f within the rows lo..(hi - 1)
FullRows(f, lo, hi) == {r \in lo..(hi - 1) : is_fullrow(f, r)}

SeqSet(seq) == {seq[k] : k \in 1..Len(seq)}

\* C8: lineclear returns the full rows of the span, grouped into maximal runs
\* of consecutive rows, in increasing order, each row with its index before
\* the clear; full rows that are not adjacent are in separate runs; the list
\* is empty when no row of the span is full
C8_LineclearRuns ==
    last.op = "lineclear" =>
        LET full == FullRows(last.before, last.span[1], last.span[2])
        IN  /\ \A i \in 1..Len(ret) :
                   /\ Len(ret[i]) >= 1
                   /\ \A j \in 1..(Len(ret[i]) - 1) : ret[i][j + 1] = ret[i][j] + 1
                   /\ (ret[i][1] - 1) \notin full
                   /\ (ret[i][Len(ret[i])] + 1) \notin full
            /\ \A i \in 1..(Len(ret) - 1) : ret[i][Len(ret[i])] < ret[i + 1][1]
            /\ UNION {SeqSet(ret[i]) : i \in 1..Len(ret)} = full
            /\ (full = {}) <=> (ret = <<>>)

\* a clear of two runs, the first of two rows, while a full row outside the
\* span is adjacent to one of them
C8_Witness ==
    /\ last.op = "lineclear"
    /\ Len(ret) = 2
    /\ Len(ret[1]) = 2
    /\ is_fullrow(last.before, last.span[2])

\* C9: after lineclear every occupied cell of a row that was not cleared has
\* kept its column and has moved down by the number of cleared rows below
\* it, and nothing else is occupied; full rows outside the span are not
\* cleared
C9_LineclearShift ==
    last.op = "lineclear" =>
        LET cleared == FullRows(last.before, last.span[1], last.span[2])
            below(r) == Cardinality({x \in cleared : x > r})
        IN  /\ field = {<<cell[1] + below(cell[1]), cell[2]>> :
                           cell \in {c \in last.before : c[1] \notin cleared}}
            /\ Cardinality(field)
                   = Cardinality(last.before) - size[2] * Cardinality(cleared)

\* a clear of two separate runs with occupied cells above both and between
\* them, and a full row below the span that stays
C9_Witness ==
    /\ last.op = "lineclear"
    /\ Len(ret) = 2
    /\ \E cell \in last.before : cell[1] < ret[1][1]
    /\ \E cell \in last.before :
           cell[1] > ret[1][Len(ret[1])] /\ cell[1] < ret[2][1]
    /\ is_fullrow(last.before, last.span[2])
    /\ is_fullrow(field, last.span[2])

\* exceeded, told from the cells: a cell beyond the edge c of the field
CellBeyond(c, coord) ==
    \E i \in 1..Len(coord) :
        CASE c = "U" -> coord[i][1] < 0
          [] c = "D" -> coord[i][1] > size[1] - 1
          [] c = "L" -> coord[i][2] < 0
          [] c = "R" -> coord[i][2] > size[2] - 1

\* C10: for each boundary, the Mover's check of the reference position
\* against the valid range says exceeded exactly when the Field's check of
\* the four cells does, i.e. exactly when a cell lies beyond that edge
C10_BoundaryExact ==
    last.op = "boundary" =>
        /\ ret = last.exceeded
        /\ ret = CellBeyond(last.check, piece.coord)

\* on the standard field, a piece whose reference position is left of the
\* field while none of its cells is
C10_Witness ==
    /\ last.op = "boundary"
    /\ last.check = "L"
    /\ IsStdSize
    /\ piece.config.pos[2] < 0
    /\ ret = FALSE

\* the same on a field whose valid ranges are computed
C10_WitnessComputed ==
    /\ last.op = "boundary"
    /\ last.check = "D"
    /\ ~IsStdSize
    /\ piece.config.pos[1] + 3 > size[1] - 1
    /\ ret = FALSE

\* the table of relative ranges of pid's geometry class
ClassRelRange(pid) ==
    IF pid = 0 THEN rel_range_o
    ELSE IF pid = 1 THEN rel_range_i
    ELSE rel_range_szljt

\* C11: on the standard 20 x 10 field every limit get_valid_range reads from
\* the hard-coded tables equals the entry that get_valid_range_all computes
\* for this size from the relative range of the shape
C11_StdTablesAreComputed ==
    (last.op = "range" /\ IsStdSize) =>
        ret = get_valid_range_all(ClassRelRange(piece.pid))
                  [piece.config.rot + 1]
                  [IF last.is_pos0 THEN 1 ELSE 2]
                  [IF last.pos_dir THEN 2 ELSE 1]

\* a limit of the I piece on the standard field that is below 0
C11_Witness ==
    /\ last.op = "range"
    /\ IsStdSize
    /\ piece.pid = 1
    /\ ret < 0

\* C12: after the field has grown by a row or a column, on either axis the
\* limit in negative direction is not above and the limit in positive
\* direction is not below what it was, and a reference position that was
\* within the four boundaries still is
C12_RangesMonotone ==
    last.op = "enlarge" =>
        /\ \A a \in BOOLEAN :
               /\ get_valid_range(piece.pid, piece.config.rot, a, FALSE)
                      <= last.limits[a, FALSE]
               /\ get_valid_range(piece.pid, piece.config.rot, a, TRUE)
                      >= last.limits[a, TRUE]
        /\ ~last.was_bad => ~bad_boundaries(piece, <<"L", "R", "U", "D">>)

\* a field grown to the standard size, the piece within the boundaries
C12_Witness ==
    /\ last.op = "enlarge"
    /\ IsStdSize
    /\ ~last.was_bad

\* a field grown from the standard size
C12_WitnessFromStd ==
    /\ last.op = "enlarge"
    /\ size \in {<<21, 10>>, <<20, 11>>}
    /\ ~last.was_bad

\* C13: get_zero_pos is the pair of the limits in negative direction of
\* pos0 and of pos1, and the piece with this reference position has its
\* topmost cell in row 0 and its leftmost cell in column 0
C13_ZeroPosIsCorner ==
    last.op = "zero_pos" =>
        /\ ret = <<get_valid_range(piece.pid, piece.config.rot, TRUE, FALSE),
                   get_valid_range(piece.pid, piece.config.rot, FALSE, FALSE)>>
        /\ LET q == from_init(piece.pid, [pos |-> ret, rot |-> piece.config.rot])
           IN  /\ \A i \in 1..4 : q.coord[i][1] >= 0 /\ q.coord[i][2] >= 0
               /\ \E i \in 1..4 : q.coord[i][1] = 0
               /\ \E i \in 1..4 : q.coord[i][2] = 0

\* a zero position left of the field, on a field whose ranges are computed
C13_Witness ==
    /\ last.op = "zero_pos"
    /\ ~IsStdSize
    /\ ret[2] < 0

\* the rotation a pre-placement arrives at
PreRot == (last.inp.config.rot + last.delta_rot) % 4

\* the piece a pre-placement aims at: the rotation arrived at, the zero
\* position of it, delta_pos1 columns to the right, cells from the shape
PreTarget ==
    LET zero == get_zero_pos(last.inp.pid, PreRot)
    IN  from_init(last.inp.pid,
                  [pos |-> <<zero[1], zero[2] + last.delta_pos1>>, rot |-> PreRot])

\* the limit of the reference column of the pre-placed piece
PreLimit(pos_dir) == get_valid_range(last.inp.pid, PreRot, FALSE, pos_dir)

\* no cell of the four topmost rows, which a spawned piece can reach, is
\* occupied
TopRowsEmpty == \A cell \in field : cell[1] > 3

\* C14: on a field with empty top rows attempt_pre succeeds for every
\* delta_pos1 from 0 (the zero position) up to the one that puts the
\* reference column on its limit in positive direction, and fails for the
\* deltas next to these two; at the first the leftmost cell is in column 0,
\* at the last the rightmost cell is in the last column
C14_PreBoundaryExact ==
    (last.op = "pre" /\ TopRowsEmpty) =>
        LET d == last.delta_pos1
            d_max == PreLimit(TRUE) - PreLimit(FALSE)
        IN  /\ (0 <= d /\ d <= d_max) => IsPiece(ret)
            /\ (d = -1 \/ d = d_max + 1) => ret = None
            /\ (d = 0 /\ d <= d_max) => \E i \in 1..4 : ret.coord[i][2] = 0
            /\ (d = d_max /\ 0 <= d) =>
                   \E i \in 1..4 : ret.coord[i][2] = size[2] - 1

\* a pre-placement onto the limit in positive direction, with a rotation
C14_Witness ==
    /\ last.op = "pre"
    /\ TopRowsEmpty
    /\ last.delta_rot # 0
    /\ last.delta_pos1 = PreLimit(TRUE) - PreLimit(FALSE)
    /\ last.delta_pos1 > 0
    /\ IsPiece(ret)

C16_PreShiftIsColumn ==
    last.op = "pre" =>
        /\ IsPiece(ret) => ret.config.pos[2] = last.delta_pos1
        /\ TopRowsEmpty =>
               (IsPiece(ret) <=> (/\ PreLimit(FALSE) <= last.delta_pos1
                                  /\ last.delta_pos1 <= PreLimit(TRUE)))

\* C17: attempt_pre returns None exactly when the piece aimed at has a cell
\* left or right of the field or on an occupied cell; exec_pre then sets
\* is_game_over and keeps its piece; on success it takes the result as its
\* piece and leaves is_game_over as it was
C17_PreFailsIff ==
    last.op = "pre" =>
        /\ (ret = None) <=>
               \/ CellBeyond("L", PreTarget.coord)
               \/ CellBeyond("R", PreTarget.coord)
               \/ \E i \in 1..4 : PreTarget.coord[i] \in field
        /\ (ret = None) => (is_game_over /\ piece = last.inp /\ pc = "over")
        /\ (ret # None) => (~is_game_over /\ piece = ret /\ pc = "move")

\* a pre-placement between the left and the right boundary that fails on an
\* occupied cell
C17_Witness ==
    /\ last.op = "pre"
    /\ ret = None
    /\ is_game_over
    /\ ~CellBeyond("L", PreTarget.coord)
    /\ ~CellBeyond("R", PreTarget.coord)

ShapeCells(p) ==
    [i \in 1..4 |->
        <<p.config.pos[1] + rel_coords[p.pid + 1][p.config.rot + 1][i][1],
          p.config.pos[2] + rel_coords[p.pid + 1][p.config.rot + 1][i][2]>>]

\* C19: every piece the engine holds, a move has returned or a maxout is
\* working on stores the four cells of its shape at its rotation, placed at
\* its reference position, and a rotation in 0..3
C19_PieceCellsFromConfig ==
    \A v \in {piece, ret, loc} :
        IsPiece(v) => (v.coord = ShapeCells(v) /\ v.config.rot \in 0..3)

\* a piece that was turned and then moved two columns by shifting its cells
C19_Witness ==
    /\ last.op = "multi"
    /\ last.move_type = 1
    /\ Abs(last.delta) = 2
    /\ IsPiece(ret)
    /\ ret.config.rot = 3
    /\ field # {}

C21_RejectedMoveKeepsState ==
    [][(last = NoOp /\ last'.op \in {"atomic", "multi"}) =>
           /\ field' = field
           /\ size' = size
           /\ is_game_over' = is_game_over
           /\ (ret' = None => piece' = piece)
           /\ (IsPiece(ret') => piece' = ret')]_vars

\* a multi-translation to the side that the Mover rejected while the game
\* was running, on a field with occupied cells
C21_Witness ==
    /\ last.op = "multi"
    /\ last.move_type = 1
    /\ ret = None
    /\ piece = last.inp
    /\ ~is_game_over
    /\ field # {}

\* the rows of the cells of p, and its vertical extent [top row, bottom row + 1)
CellRows(p) == [i \in 1..4 |-> p.coord[i][1]]

VerticalExtent(p) == <<SeqMin(CellRows(p)), SeqMax(CellRows(p)) + 1>>

\* C22: Engine.exec_freeze writes the four cells of the current piece as
\* occupied, runs the line clear over the piece's own vertical extent
\* [top row, bottom row + 1), and returns the list of the cleared row groups
\* to its caller.
C22_FreezeReturnsClearedGroups ==
    last.op = "freeze" =>
        LET written == last.before \cup SeqSet(ShapeCells(last.inp))
            cleared == lineclear_on(written, VerticalExtent(last.inp))
        IN  /\ field = cleared.field
            /\ ret # None
            /\ ret = cleared.chunks

\* C23: for a legal input piece an atomic translation, which checks the one
\* boundary in the direction of travel and the collision, accepts the move
\* exactly when the check of all four boundaries and the collision accepts
\* it, and never raises; an atomic rotation, in place or kicked, returns only
\* pieces within all four boundaries.
C23_DirectionCheckSuffices ==
    (last.op = "atomic" /\ Legal(last.inp)) =>
        IF last.move_type \in {0, 1}
        THEN LET q == Moved(last.inp, last.move_type, last.pos_dir, 1)
                 one == atomic_to_check_string(last.move_type, last.pos_dir)
                 all == <<"L", "R", "U", "D">>
             IN  /\ Len(one) = 1
                 /\ ret \in {q, None}
                 /\ (ret = q) <=> ~bad_boundaries_collision(all, q)
                 /\ (ret = q) <=> Legal(q)
        ELSE /\ atomic_to_check_string(last.move_type, last.pos_dir)
                    = <<"L", "R", "U", "D">>
             /\ IsPiece(ret) =>
                    \A c \in {"L", "R", "U", "D"} : ~CellBeyond(c, ret.coord)

\* a move to the left that was rejected at the left wall, the piece being
\* legal and nothing in its way
C23_Witness ==
    /\ last.op = "atomic"
    /\ last.move_type = 1
    /\ ~last.pos_dir
    /\ Legal(last.inp)
    /\ ret = None
    /\ LET q == Moved(last.inp, 1, FALSE, 1)
       IN  /\ CellBeyond("L", q.coord)
           /\ ~has_collision(q.coord)

\* a rotation that in place would have left the field by a side or the
\* floor and was kicked back into it
C23_WitnessKick ==
    /\ KickCase
    /\ IsPiece(ret)
    /\ \E c \in {"L", "R", "D"} :
           CellBeyond(c, RotatedInPlace(last.inp, last.pos_dir).coord)

\* the representative of x in 0..3
Mod4(x) == CHOOSE r \in 0..3 : \E k \in (-MaxDelta - 1)..(MaxDelta + 1) : x = 4 * k + r

\* C24: the rotation of every piece is in 0..3 after any operation: a
\* positive atomic rotation goes from rot to rot + 1 and from 3 to 0, a
\* negative one to rot - 1 and from 0 to 3, a multi-rotation and the rotation
\* of the pre-placement by a signed delta go to (rot + delta) mod 4, taken
\* in 0..3; a translation keeps the rotation.
C24_RotationMod4 ==
    /\ piece.config.rot \in 0..3
    /\ IsPiece(loc) => loc.config.rot \in 0..3
    /\ IsPiece(ret) => ret.config.rot \in 0..3
    /\ (last.op = "atomic" /\ IsPiece(ret)) =>
           LET rot == last.inp.config.rot
           IN  ret.config.rot =
                   IF last.move_type # 2 THEN rot
                   ELSE IF last.pos_dir THEN (IF rot = 3 THEN 0 ELSE rot + 1)
                   ELSE (IF rot = 0 THEN 3 ELSE rot - 1)
    /\ (last.op = "multi" /\ IsPiece(ret)) =>
           ret.config.rot =
               IF last.move_type # 2 THEN last.inp.config.rot
               ELSE Mod4(last.inp.config.rot + last.delta)
    /\ (last.op = "pre" /\ IsPiece(ret)) =>
           ret.config.rot = Mod4(last.inp.config.rot + last.delta_rot)

\* a pre-placement that turned the spawned piece by a negative delta
C24_Witness ==
    /\ last.op = "pre"
    /\ last.delta_rot < 0
    /\ IsPiece(ret)
    /\ ret.config.rot = 4 + last.delta_rot

\* a negative atomic rotation from 0 and a multi-rotation past 3
C24_WitnessWrap ==
    \/ /\ last.op = "atomic"
       /\ last.move_type = 2
       /\ ~last.pos_dir
       /\ last.inp.config.rot = 0
       /\ IsPiece(ret)
       /\ ret.config.rot = 3
    \/ /\ last.op = "multi"
       /\ last.move_type = 2
       /\ last.delta = 2
       /\ last.inp.config.rot = 3
       /\ IsPiece(ret)
       /\ ret.config.rot = 1

\* C25: for every piece type and every rotation 0..3 the shape table gives
\* exactly 4 cell offsets, pairwise distinct, so that every piece occupies
\* exactly 4 distinct cells.
C25_ShapeHasFourCells ==
    /\ Len(piece.coord) = 4
    /\ Cardinality(SeqSet(piece.coord)) = 4
    /\ last.op = "shape" =>
           /\ Len(ret) = 4
           /\ \A i \in 1..4, j \in 1..4 : i # j => ret[i] # ret[j]

\* the shape of the T at rot 2 has been looked up
C25_Witness ==
    /\ last.op = "shape"
    /\ piece.pid = 6
    /\ piece.config.rot = 2
    /\ Cardinality(SeqSet(ret)) = 4

\* the offsets of pid's cells at rot on one axis (1: rows, 2: columns)
AxisOffsets(pid, rot, axis) ==
    [i \in 1..4 |-> rel_coords[pid + 1][rot + 1][i][axis]]

\* (minimum offset, maximum offset + 1) of pid's cells at rot on one axis
Extent(pid, rot, axis) ==
    <<SeqMin(AxisOffsets(pid, rot, axis)), SeqMax(AxisOffsets(pid, rot, axis)) + 1>>

\* C30: for every piece type, rotation and axis, the entry of the relative
\* range table of the type's geometry class is (minimum cell offset, maximum
\* cell offset + 1) of the type's four cells on that axis; the five types
\* S, Z, L, J, T so have the same extents at each rotation.
C30_RelRangeMatchesShape ==
    last.op = "rel_range" =>
        LET pid == piece.pid
            rot == piece.config.rot
            axis == IF last.is_pos0 THEN 1 ELSE 2
        IN  /\ ret = Extent(pid, rot, axis)
            /\ ret = ClassRelRange(pid)[rot + 1][axis]
            /\ pid >= 2 => \A other \in 2..6 : Extent(other, rot, axis) = ret

\* the range of the columns of a J at rot 3, which does not touch the left
\* edge of its box
C30_Witness ==
    /\ last.op = "rel_range"
    /\ ~last.is_pos0
    /\ piece.pid = 5
    /\ piece.config.rot = 3
    /\ ret = <<1, 3>>

\* all cells of p are above row 0, and p is within the left, the right and
\* the down boundary, told from its cells and by the Mover's check
AboveField(p) ==
    /\ \A i \in 1..4 : p.coord[i][1] < 0
    /\ \A c \in {"L", "R", "D"} : ~CellBeyond(c, p.coord)
    /\ ~bad_boundaries(p, <<"L", "R", "D">>)
    /\ bad_boundaries(p, <<"U">>)

Spawned(p) == p.config = [pos |-> <<-4, 0>>, rot |-> 0]

\* C26: the piece Engine.init_piece spawns (reference position (-4, 0),
\* rotation 0), and that piece after the rotation of any pre-placement, has
\* all four cells strictly above row 0 and is within the left, the right and
\* the down boundary of the grid, for every piece type and rotation.
C26_SpawnAboveField ==
    Spawned(piece) =>
        /\ AboveField(piece)
        /\ last.op = "pre_rotate" =>
               /\ ret.pid = piece.pid
               /\ ret.config.pos = <<-4, 0>>
               /\ AboveField(ret)

\* a spawned I turned to its rotation 2 over the small field, where its
\* cells reach from wall to wall
C26_Witness ==
    /\ Spawned(piece)
    /\ last.op = "pre_rotate"
    /\ piece.pid = 1
    /\ ret.config.rot = 2
    /\ size = SessionSize
    /\ \E i \in 1..4 : ret.coord[i][2] = 0

\* C29: bad_boundaries_collision looks at the requested boundaries before it
\* reads the grid and stops at the first failure: a piece beyond a requested
\* boundary is reported bad without the grid being read, also where reading
\* its cells would raise; a piece within the grid is reported bad exactly
\* when it is beyond a requested boundary or one of its cells is occupied.
C29_BoundariesBeforeCollision ==
    last.op = "legality" =>
        LET exceeded == \E k \in 1..Len(last.check) :
                            CellBeyond(last.check[k], piece.coord)
            occupied == \E i \in 1..4 : piece.coord[i] \in field
            inside == \A i \in 1..4 : InGrid(piece.coord[i])
        IN  /\ exceeded => ret = [bad |-> TRUE]
            /\ (~exceeded /\ inside) => ret = [bad |-> occupied]

\* a piece beyond the requested right boundary whose cells are off the
\* matrix, so that reading them would have raised
C29_Witness ==
    /\ last.op = "legality"
    /\ last.check = <<"R">>
    /\ CellBeyond("R", piece.coord)
    /\ at_raises(piece.coord)
    /\ field # {}
    /\ ret = [bad |-> TRUE]

\* a piece within the grid that is reported bad for an occupied cell only
C29_WitnessCollision ==
    /\ last.op = "legality"
    /\ last.check = <<"L", "R", "U", "D">>
    /\ \A i \in 1..4 : InGrid(piece.coord[i])
    /\ ret = [bad |-> TRUE]

\* C27: once exec_pre has failed and set is_game_over, the flag stays true
\* through every later operation of the engine (exec_pre, also one that
\* succeeds, exec_atomic, exec_multi, exec_maxout, exec_drop, exec_freeze,
\* init_piece); Engine.reset, and nothing else, sets it back to false.
C27_GameOverUntilReset ==
    [][/\ (is_game_over /\ last'.op # "reset") => is_game_over'
       /\ (~is_game_over /\ is_game_over') =>
              (last'.op = "pre" /\ ret' = None)
       /\ last'.op = "reset" => ~is_game_over']_vars

\* a piece was spawned after the game was over, its pre-placement succeeded,
\* it was frozen, and the game is still over
C27_Witness ==
    /\ is_game_over
    /\ last.op = "freeze"
    /\ field # last.before

\* the game was over and has been reset
C27_WitnessReset ==
    /\ last.op = "reset"
    /\ ~is_game_over
    /\ IsPiece(piece)
    /\ piece.config.pos = <<-4, 0>>

\* C28: when the piece rotated in place (same reference position, rotation
\* +1 or -1 mod 4) is within all four boundaries and collides with nothing,
\* attempt_atomic_rot returns exactly that piece, without a kick; whenever it
\* succeeds, the result has the type of the source, its rotation +1 or -1
\* mod 4, and as reference position the source's, or the source's plus one
\* offset of the kick list selected for the rotation.
C28_InPlaceRotationFirst ==
    (last.op = "atomic" /\ last.move_type = 2) =>
        LET q == RotatedInPlace(last.inp, last.pos_dir)
        IN  /\ Legal(q) => ret = q
            /\ IsPiece(ret) =>
                   /\ ret.pid = last.inp.pid
                   /\ ret.config.rot = q.config.rot
                   /\ \/ ret.config.pos = last.inp.config.pos
                      \/ /\ ret.pid # 0
                         /\ LET cands == get_srs_candidates(ret.pid, q.config.rot,
                                                            last.pos_dir)
                            IN  \E k \in 1..Len(cands) :
                                    ret.config.pos =
                                        VecAdd(last.inp.config.pos, cands[k])

\* an O, for which a look at the kick candidates would raise, rotated in
\* place next to an occupied cell
C28_Witness ==
    /\ last.op = "atomic"
    /\ last.move_type = 2
    /\ last.inp.pid = 0
    /\ ret = RotatedInPlace(last.inp, last.pos_dir)
    /\ field # {}

\* a rotation that succeeded at a kick offset other than (0, 0)
C28_WitnessKick ==
    /\ KickCase
    /\ IsPiece(ret)
    /\ ret.config.pos # last.inp.config.pos
    /\ ret.config.rot = (last.inp.config.rot + 3) % 4

\* C32: in the sequence of the first elements of successive get_pids calls,
\* the items k*n+1 .. k*n+n (n the bag's size) contain each item of the bag
\* exactly once, across refills; a Sequencer hands them out in the bag's order
C32_BlocksArePermutations ==
    (pc = "gen" /\ last # NoOp) =>
        /\ \A i \in 1..Len(last.handed) :
               /\ last.handed[i] \in SeqSet(generator.bag)
               /\ \A j \in 1..Len(last.handed) :
                      last.handed[i] = last.handed[j] => i = j
        /\ generator.kind = "Sequencer" =>
               last.handed = SubSeq(generator.bag, 1, Len(last.handed))

\* the Shuffler's 47th call refilled its reservoir in the middle of the seventh
\* block, which the 49th call completes with a bag read backwards
C32_Witness ==
    /\ pc = "gen" /\ last # NoOp
    /\ generator.bag = Bag7
    /\ generator.kind = "Shuffler"
    /\ last.handed = Reverse(generator.bag)
    /\ Len(generator.reservoir) = refill_threshold - 1 + 3 * Len(Bag7) - 2

\* the Engine's Sequencer has handed out the block its first refill fell into
C32_WitnessSequencer ==
    /\ pc = "gen" /\ last # NoOp
    /\ generator.kind = "Sequencer"
    /\ last.handed = Bag7
    /\ Len(generator.reservoir) = refill_threshold - 1 + 3 * Len(Bag7) - 2

\* C40: after construction and after every get_pids call the reservoir holds
\* at least refill_threshold items; a call with n_pids <= 10 returns exactly
\* n_pids items and removes exactly one item, the first
C40_ReservoirNeverDry ==
    pc = "gen" =>
        /\ Len(generator.reservoir) >= refill_threshold
        /\ last # NoOp =>
               /\ last.n_pids <= 10 => Len(ret) = last.n_pids
               /\ ret = SubSeq(last.before, 1, Len(ret))
               /\ Len(generator.reservoir) >= Len(last.before) - 1
               /\ SubSeq(generator.reservoir, 1, Len(last.before) - 1)
                      = Tail(last.before)

\* ten items were asked of a reservoir of ten, which refilled after the pop
C40_Witness ==
    /\ pc = "gen" /\ last # NoOp
    /\ last.n_pids = 10
    /\ Len(last.before) = refill_threshold
    /\ Len(generator.reservoir) > Len(last.before)

\* an atomic rotation has run and the piece rotated in place is not legal
RotationKicked ==
    /\ last.op = "atomic"
    /\ last.move_type = 2
    /\ ~Legal(RotatedInPlace(last.inp, last.pos_dir))

\* candidates the kick loop of the last atomic rotation evaluated
KicksEvaluated ==
    LET q == from_atomic_rot(last.inp, last.pos_dir)
    IN  srs_evaluated(q, get_srs_candidates(q.pid, q.config.rot, last.pos_dir), 1)

\* C33 as claimed: an atomic rotation whose in-place attempt is illegal
\* evaluates at most 4 kick candidates before it returns a piece or fails
C33_AtMostFourCandidates == RotationKicked => KicksEvaluated <= 4

\* C33: an atomic rotation whose in-place attempt is illegal evaluates at
\* most 5 kick candidates before it returns a piece or fails
C33_AtMostFiveCandidates == RotationKicked => KicksEvaluated <= 5

\* a rotation that took the fifth candidate of its row
C33_Witness == RotationKicked /\ KicksEvaluated = 5 /\ ret # None

\* a rotation that failed after its fifth candidate
C33_WitnessFail == RotationKicked /\ KicksEvaluated = 5 /\ ret = None

\* C34: from a piece a successful attempt_pre returned, after any sequence of
\* successful atomic, multi, maxout and drop calls on an unchanged field, the
\* current piece is within all four boundaries and on no occupied cell
C34_LegalityPreserved ==
    /\ pc \in {"move", "maxout"} => Legal(piece)
    /\ pc = "maxout" => Legal(loc)
    /\ (pc = "move" /\ last # NoOp /\ IsPiece(ret)) => Legal(ret)

\* a piece that was kicked into its place is then moved on, next to occupied
\* cells
C34_Witness ==
    /\ pc = "move"
    /\ last.op \in {"multi", "maxout", "drop"}
    /\ IsPiece(ret)
    /\ ret # last.inp
    /\ last.inp.config.rot # 0
    /\ last.inp.config.pos[1] > 0
    /\ \E i \in 1..4 : <<ret.coord[i][1], ret.coord[i][2] + 1>> \in field

\* the cells handed to Field.has_collision by the last call, or by the
\* iteration the running maxout is about to make
LastReads ==
    IF pc = "maxout" THEN atomic_reads(last.move_type, loc, last.pos_dir)
    ELSE IF last.op = "pre"
    THEN pre_reads(last.inp, last.delta_rot, last.delta_pos1)
    ELSE IF last.op = "atomic"
    THEN atomic_reads(last.move_type, last.inp, last.pos_dir)
    ELSE IF last.op = "multi"
    THEN multi_reads(last.move_type, last.inp,
                     multi_to_dir_delta(last.delta)[1],
                     multi_to_dir_delta(last.delta)[2])
    ELSE {}

\* C35: in a sequence that starts with attempt_pre and goes on with atomic,
\* multi, maxout and drop calls on the pieces returned, every cell handed to
\* Field.has_collision has 0 <= row < rows and 0 <= col < cols
C35_CollisionReadsInGrid == \A cell \in LastReads : InGrid(cell)

\* a move against a wall handed no cell to has_collision, a kick handed the
\* cells of several candidates
C35_Witness ==
    /\ last.op = "atomic"
    /\ last.move_type = 2
    /\ Cardinality(LastReads) > 4

\* a move whose new piece crosses the boundary checked hands nothing to
\* has_collision
C35_WitnessNone ==
    /\ last.op = "atomic"
    /\ last.move_type = 1
    /\ ret = None
    /\ LastReads = {}

\* C37: for a legal O piece an atomic rotation in either direction succeeds
\* in place: the piece returned has the same reference position and the same
\* four cells, its rotation is one more or one less mod 4, and the kick
\* candidates of pid 0 are not looked up
C37_ORotatesInPlace ==
    (last.op = "atomic" /\ last.move_type = 2 /\ last.inp.pid = 0
                        /\ Legal(last.inp)) =>
        /\ IsPiece(ret)
        /\ ret.pid = 0
        /\ ret.config.pos = last.inp.config.pos
        /\ ret.coord = last.inp.coord
        /\ ret.config.rot
               = (last.inp.config.rot + (IF last.pos_dir THEN 1 ELSE 3)) % 4
        /\ piece = ret
        /\ ~bad_boundaries_collision(atomic_to_check_string(2, last.pos_dir),
                                     from_atomic_rot(last.inp, last.pos_dir))

\* an O piece between a wall and occupied cells was turned from rot 0 to rot 3
C37_Witness ==
    /\ last.op = "atomic" /\ last.move_type = 2 /\ last.inp.pid = 0
    /\ Legal(last.inp)
    /\ ~last.pos_dir
    /\ last.inp.config.rot = 0
    /\ IsPiece(ret)
    /\ \E i \in 1..4 : ret.coord[i][2] = size[2] - 1
    /\ \E i \in 1..4 : <<ret.coord[i][1] + 1, ret.coord[i][2]>> \in field

\* C38: a successful atomic translation changes exactly one coordinate of the
\* reference position by exactly 1 in the direction asked for, axis 0 for
\* move type 0 and axis 1 for move type 1, and leaves the other coordinate,
\* the rotation and the type as they were; all four cells move by the same
\* unit vector
C38_TranslationFrame ==
    (last.op = "atomic" /\ last.move_type \in {0, 1} /\ IsPiece(ret)) =>
        LET unit == IF last.move_type = 0
                    THEN <<(IF last.pos_dir THEN 1 ELSE -1), 0>>
                    ELSE <<0, (IF last.pos_dir THEN 1 ELSE -1)>>
        IN  /\ ret.config.pos = VecAdd(last.inp.config.pos, unit)
            /\ ret.config.rot = last.inp.config.rot
            /\ ret.pid = last.inp.pid
            /\ Len(ret.coord) = 4
            /\ \A i \in 1..4 : ret.coord[i] = VecAdd(last.inp.coord[i], unit)
            /\ piece = ret

\* a rotated piece was moved up by one row
C38_Witness ==
    /\ last.op = "atomic" /\ last.move_type = 0 /\ ~last.pos_dir
    /\ IsPiece(ret)
    /\ last.inp.config.rot = 3

\* a piece was moved to the left by one column
C38_WitnessLeft ==
    /\ last.op = "atomic" /\ last.move_type = 1 /\ ~last.pos_dir
    /\ IsPiece(ret)
    /\ last.inp.pid = 1

\* C39: attempt_multi with delta 0 runs no atomic and checks nothing: it
\* returns the piece it was given, for every move type, also when that piece
\* is out of the field or on occupied cells
C39_MultiZeroIsIdentity ==
    (last.op = "attempt_multi" /\ last.delta = 0) =>
        /\ multi_to_dir_delta(last.delta)[2] = 0
        /\ ret = last.inp
        /\ ret = piece

\* a zero multi-rotation returned a piece that is on an occupied cell and
\* partly beyond the right wall
C39_Witness ==
    /\ last.op = "attempt_multi" /\ last.delta = 0 /\ last.move_type = 2
    /\ ret = last.inp
    /\ CellBeyond("R", ret.coord)
    /\ \E i \in 1..4 : ret.coord[i] \in field

\* a zero multi-move returned a legal piece as well
C39_WitnessLegal ==
    /\ last.op = "attempt_multi" /\ last.delta = 0 /\ last.move_type = 0
    /\ ret = last.inp
    /\ Legal(ret)

\* the step just taken is the call of the engine operation op
Called(op) == last' # last /\ last'.op = op

\* C31: in the minimal entry each piece goes through init_piece, exec_pre and
\* then, only if the pre-placement succeeded, exec_drop followed by
\* exec_freeze; a piece whose pre-placement failed is neither dropped nor
\* written to the field, and the next piece is spawned only after the current
\* one is frozen or, when its pre-placement failed, after the reset
C31_PhaseOrder ==
    [][/\ (pc' = "pre" /\ pc # "pre") =>
              \/ last = NoOp /\ piece = None
              \/ last # NoOp /\ last.op = "freeze" /\ last.inp = piece
              \/ last # NoOp /\ last.op = "reset" /\ is_game_over' = FALSE
       /\ Called("pre") => (pc = "pre" /\ Spawned(piece) /\ last = NoOp)
       /\ Called("drop") =>
              /\ ~is_game_over
              /\ pc = "move"
              /\ ~Spawned(piece)
              /\ Legal(piece)
              /\ last = NoOp
       /\ Called("freeze") =>
              /\ ~is_game_over
              /\ last.op = "drop"
              /\ pc = "move"
              /\ piece = ret
              /\ last'.inp = piece
       /\ (is_game_over /\ field' # field) => (Called("reset") /\ field' = {})
       /\ (is_game_over /\ piece' # piece) => last.op = "reset"
      ]_vars

\* the third piece of a game has been frozen on top of the first two
C31_Witness ==
    /\ pc = "frozen"
    /\ last.op = "freeze"
    /\ last.inp.pid = 2
    /\ Cardinality(last.before) = 8
    /\ ~is_game_over

\* a pre-placement failed on a field that holds pieces: the game is over and
\* the piece is where init_piece put it
C31_WitnessGameOver ==
    /\ pc = "over"
    /\ is_game_over
    /\ last.op = "pre"
    /\ ret = None
    /\ Spawned(piece)
    /\ field # {}

\* a piece was spawned after the reset that followed a game over
C31_WitnessAfterReset ==
    /\ pc = "pre"
    /\ Spawned(piece)
    /\ last = NoOp
    /\ field = {}
    /\ Drawn(generator) = 1
    /\ ret = None
    /\ piece.pid = 0
    /\ is_game_over = FALSE

\* number of rows in the chunks a lineclear returned
RowsIn(chunks) ==
    Cardinality({<<i, j>> \in (1..Len(chunks)) \X (0..(size[1] - 1)) :
                     j < Len(chunks[i])})

\* the last operation on the field was the freeze of a piece that was within
\* the field and on none of its occupied cells
FrozeLegal ==
    /\ last.op = "freeze"
    /\ \A i \in 1..4 : InGrid(last.inp.coord[i]) /\ last.inp.coord[i] \notin last.before

\* C36: from an empty field on, after every exec_freeze of a legal piece no
\* row of the field is full, and the field holds the cells it held before, plus
\* 4, minus the width of the field for every row cleared
C36_NoFullRowSurvives ==
    FrozeLegal =>
        /\ \A r \in 0..(size[1] - 1) : ~is_fullrow(field, r)
        /\ Cardinality(field)
               = Cardinality(last.before) + 4 - size[2] * RowsIn(last.chunks)

\* a freeze cleared two rows at once and left cells of earlier pieces behind
C36_Witness ==
    /\ FrozeLegal
    /\ RowsIn(last.chunks) = 2
    /\ field # {}

\* a freeze that cleared nothing, the last piece of its game
C36_WitnessNone ==
    /\ FrozeLegal
    /\ RowsIn(last.chunks) = 0
    /\ Drawn(generator) = GamePieces

\* a freeze cleared one row and the rows above it came down
C36_WitnessOne ==
    /\ FrozeLegal
    /\ RowsIn(last.chunks) = 1
    /\ Cardinality(field) >= size[2]

NoRaise == pc # "raised"

=============================================================================
